---- MODULE Spec2Model ----
(***************************************************************************)
(* sf-field-analysis: the usage matcher (containsField), the reference     *)
(* collector (searchUsage, collectReferences), the result assembler        *)
(* (processFields) and the remote field merger (mergeStandardFields).      *)
(*                                                                         *)
(* A JavaScript string is a sequence of one-character strings, so that     *)
(* matching, case folding, escaping and joining are computed character by  *)
(* character as the code computes them.                                    *)
(***************************************************************************)
EXTENDS Integers, Sequences, FiniteSets, TLC

VARIABLES
    text,        \* containsField: the text argument
    fieldName,   \* containsField: the fieldName argument
    opts,        \* containsField: the opts argument
    outcome,     \* containsField: what the call produced
    mpc,         \* containsField: position of the caller
    dirExists,   \* fs.existsSync(objectFieldsPath)
    maps,        \* the corpora and the last-modified map handed to both operations
    fieldFiles,  \* processFields: the field documents the glob enumerated
    idx,         \* processFields: the document the loop is at
    results,     \* processFields: the rows pushed so far, then the rows returned
    error,       \* processFields: the error it threw, "none" while it has not
    filesRead,   \* processFields: field documents read so far
    fieldsMatched, \* processFields: fields whose usage has been matched so far
    dirChecks,   \* processFields: calls of fs.existsSync so far
    globCalls,   \* processFields: calls of fg() so far
    fieldDefs,   \* mergeStandardFields: the remote inventory
    mergeInput,  \* mergeStandardFields: the existingRows of the last call
    merged,      \* mergeStandardFields: the rows the last call returned
    pc,          \* position of the caller of processFields / mergeStandardFields
    loadFiles,   \* preloadTextContent: the files fg() returned, in its order
    unreadable,  \* preloadTextContent: the files whose read fails
    pending,     \* preloadTextContent: per run, the reads that have not completed
    content,     \* preloadTextContent: per run, the TextMap built so far
    lpc,         \* preloadTextContent: per run, position of the call
    args,        \* run: dryRun, includeStandard, exportCsvFlag, noOpen
    tempCsv,     \* run: the last-modified CSV on disk
    queryOutcome, \* run: how the last-modified query went
    fetchOutcome, \* run: how the FieldDefinition query went
    loaded,      \* run: corpora loaded so far
    rows,        \* run: the value of its results variable
    runError,    \* run: the error it rejected with, "none" while it has not
    printed,     \* main: the error message printed, "none" while none is
    warned,      \* run: the FieldDefinition warning was printed
    excel,       \* exportToExcel: the workbook on disk
    csvWritten,  \* exportToCsv: the CSV export was written
    opened,      \* openFile was called
    exitCode,    \* process.exit: the exit code, -1 while the process runs
    cliCalls,    \* execSfStdout: calls so far
    rpc          \* position of main / run

matchVars == <<text, fieldName, opts, outcome, mpc>>

fieldsVars == <<dirExists, maps, fieldFiles, idx, results, error, filesRead,
                fieldsMatched, dirChecks, globCalls>>

mergeVars == <<fieldDefs, mergeInput, merged>>

loadVars == <<loadFiles, unreadable, pending, content, lpc>>

runVars == <<args, tempCsv, queryOutcome, fetchOutcome, loaded, rows, runError, printed,
             warned, excel, csvWritten, opened, exitCode, cliCalls, rpc>>

vars == <<matchVars, fieldsVars, mergeVars, pc, loadVars, runVars>>

(***************************************************************************)
(* Bounds of the model.                                                    *)
(***************************************************************************)
MaxTextLen == 3
MaxNameLen == 2
MaxDocs == 2
MaxDefs == 2

\* The characters texts and identifiers are drawn from: a letter in both
\* cases, and three characters that are not identifier characters, two of
\* them regex syntax characters.
Alphabet == {"a", "A", " ", ".", "("}

RECURSIVE StringsUpTo(_)
StringsUpTo(n) ==
    IF n = 0 THEN {<<>>}
    ELSE LET shorter == StringsUpTo(n - 1)
         IN  shorter \cup {Append(s, c) : s \in {t \in shorter : Len(t) = n - 1}, c \in Alphabet}

(***************************************************************************)
(* String primitives of the JavaScript runtime.                            *)
(***************************************************************************)
LowerLetters == <<"a","b","c","d","e","f","g","h","i","j","k","l","m",
                  "n","o","p","q","r","s","t","u","v","w","x","y","z">>
UpperLetters == <<"A","B","C","D","E","F","G","H","I","J","K","L","M",
                  "N","O","P","Q","R","S","T","U","V","W","X","Y","Z">>
Digits == {"0","1","2","3","4","5","6","7","8","9"}

\* The lower-case and upper-case forms of the letters.
LowerOf == [c \in {UpperLetters[i] : i \in 1..26} |->
              LowerLetters[CHOOSE i \in 1..26 : UpperLetters[i] = c]]
UpperOf == [c \in {LowerLetters[i] : i \in 1..26} |->
              UpperLetters[CHOOSE i \in 1..26 : LowerLetters[i] = c]]

ToLowerChar(c) == IF c \in DOMAIN LowerOf THEN LowerOf[c] ELSE c

ToUpperChar(c) == IF c \in DOMAIN UpperOf THEN UpperOf[c] ELSE c

\* String.prototype.toLowerCase
toLowerCase(s) == [i \in 1..Len(s) |-> ToLowerChar(s[i])]

\* String.prototype.includes
includes(s, needle) ==
    \E i \in 1..(Len(s) - Len(needle) + 1) : SubSeq(s, i, i + Len(needle) - 1) = needle

\* The class \w of a RegExp without the u flag: [A-Za-z0-9_]
WordCharacters == DOMAIN LowerOf \cup DOMAIN UpperOf \cup Digits \cup {"_"}

IsWordChar(c) == c \in WordCharacters

(***************************************************************************)
(* The regular expression engine, for the fragment of the pattern language *)
(* made of pattern characters, ".", "\" escapes and groups.                *)
(***************************************************************************)
\* The characters the replace() of containsField escapes: [.*+?^${}()|[\]\\]
SyntaxCharacters == {".", "*", "+", "?", "^", "$", "{", "}", "(", ")", "|", "[", "]", "\\"}

\* One atom or assertion after a "\".
AtomEscape(c) ==
    CASE c = "b" -> [t |-> "wordBoundary", c |-> ""]
      [] c = "B" -> [t |-> "notWordBoundary", c |-> ""]
      [] c \in SyntaxCharacters -> [t |-> "char", c |-> c]

\* Parsing of a pattern source from position i inside `depth` open groups:
\* [ok |-> FALSE] is the SyntaxError that new RegExp() throws.
RECURSIVE ParsePattern(_, _, _)
ParsePattern(src, i, depth) ==
    IF i > Len(src) THEN [ok |-> depth = 0, terms |-> <<>>]
    ELSE LET c == src[i]
             Then(term, next, d) ==
                 LET rest == ParsePattern(src, next, d)
                 IN  [ok |-> rest.ok, terms |-> term \o rest.terms]
         IN  CASE c = "\\" ->
                    IF i = Len(src) THEN [ok |-> FALSE, terms |-> <<>>]
                    ELSE Then(<<AtomEscape(src[i + 1])>>, i + 2, depth)
               [] c = "(" -> Then(<<>>, i + 1, depth + 1)
               [] c = ")" ->
                    IF depth = 0 THEN [ok |-> FALSE, terms |-> <<>>]
                    ELSE Then(<<>>, i + 1, depth - 1)
               [] c = "." -> Then(<<[t |-> "any", c |-> ""]>>, i + 1, depth)
               [] c \notin SyntaxCharacters -> Then(<<[t |-> "char", c |-> c]>>, i + 1, depth)

\* new RegExp(source, flags)
RegExp(source, ignoreCase) ==
    LET parsed == ParsePattern(source, 1, 0)
    IN  [ok |-> parsed.ok, terms |-> parsed.terms, ignoreCase |-> ignoreCase]

\* Canonicalize of the RegExp semantics: with the i flag characters are
\* compared by their upper-case form.
Canonicalize(c, ignoreCase) == IF ignoreCase THEN ToUpperChar(c) ELSE c

\* Position p lies between s[p-1] and s[p].
IsWordBoundary(s, p) ==
    LET before == p > 1 /\ IsWordChar(s[p - 1])
        after  == p <= Len(s) /\ IsWordChar(s[p])
    IN  before # after

RECURSIVE MatchTerms(_, _, _, _)
MatchTerms(re, k, s, p) ==
    IF k > Len(re.terms) THEN TRUE
    ELSE LET term == re.terms[k]
         IN  CASE term.t = "wordBoundary" ->
                    IsWordBoundary(s, p) /\ MatchTerms(re, k + 1, s, p)
               [] term.t = "notWordBoundary" ->
                    ~IsWordBoundary(s, p) /\ MatchTerms(re, k + 1, s, p)
               [] term.t = "any" ->
                    /\ p <= Len(s)
                    /\ s[p] \notin {"\n", "\r"}
                    /\ MatchTerms(re, k + 1, s, p + 1)
               [] term.t = "char" ->
                    /\ p <= Len(s)
                    /\ Canonicalize(s[p], re.ignoreCase) = Canonicalize(term.c, re.ignoreCase)
                    /\ MatchTerms(re, k + 1, s, p + 1)

\* RegExp.prototype.test, for a pattern without the g and y flags
test(re, s) == \E start \in 1..(Len(s) + 1) : MatchTerms(re, 1, s, start)

(***************************************************************************)
(* src/analysis/matchers.ts                                                *)
(***************************************************************************)
\* fieldName.replace(/[.*+?^${}()|[\]\\]/g, "\\$&") with every syntax
\* character left as it is
RECURSIVE EscapeNothing(_)
EscapeNothing(s) ==
    IF s = <<>> THEN <<>> ELSE <<Head(s)>> \o EscapeNothing(Tail(s))

\* fieldName.replace(/[.*+?^${}()|[\]\\]/g, "\\$&")
RECURSIVE EscapeRegExp(_)
EscapeRegExp(s) ==
    IF s = <<>> THEN <<>>
    ELSE (IF Head(s) \in SyntaxCharacters THEN <<"\\", Head(s)>> ELSE <<Head(s)>>)
         \o EscapeRegExp(Tail(s))

\* `\\b${esc}\\b` without the closing word boundary
WholeWordSourceOpenEnded(esc) == <<"\\", "b">> \o esc

\* `\\b${esc}\\b`
WholeWordSource(esc) == <<"\\", "b">> \o esc \o <<"\\", "b">>

DefaultOpts == [ignoreCase |-> TRUE, wholeWord |-> TRUE]

\* containsField without if (!text || !fieldName) return false
containsFieldOptsUnguarded(txt, name, o) ==
    IF ~o.wholeWord THEN
        [threw |-> FALSE,
         value |-> IF o.ignoreCase THEN includes(toLowerCase(txt), toLowerCase(name))
                   ELSE includes(txt, name)]
    ELSE LET esc == EscapeRegExp(name)
             re  == RegExp(WholeWordSource(esc), o.ignoreCase)
         IN  IF ~re.ok THEN [threw |-> TRUE, value |-> FALSE]
             ELSE [threw |-> FALSE, value |-> test(re, txt)]

\* containsField(text, fieldName, opts): [threw |-> TRUE] when the call
\* raises, else the boolean it returns.
containsFieldOpts(txt, name, o) ==
    IF txt = <<>> \/ name = <<>> THEN [threw |-> FALSE, value |-> FALSE]
    ELSE IF ~o.wholeWord THEN
        [threw |-> FALSE,
         value |-> IF o.ignoreCase THEN includes(toLowerCase(txt), toLowerCase(name))
                   ELSE includes(txt, name)]
    ELSE LET esc == EscapeRegExp(name)
             re  == RegExp(WholeWordSource(esc), o.ignoreCase)
         IN  IF ~re.ok THEN [threw |-> TRUE, value |-> FALSE]
             ELSE [threw |-> FALSE, value |-> test(re, txt)]

\* containsField(text, fieldName) as every caller in the repository calls
\* it: with the default options, reading the boolean it returns.
containsField(txt, name) == containsFieldOpts(txt, name, DefaultOpts).value

\* outcome before containsField has been called
NoOutcome == [threw |-> FALSE, value |-> FALSE]

(***************************************************************************)
(* Arrays, objects and the TextMap type (src/types).                       *)
(*                                                                         *)
(* A TextMap is the sequence of its [name, text] entries in insertion      *)
(* order, which is the order Object.keys and Object.entries give for keys  *)
(* that are file names; names are distinct within one map.                 *)
(***************************************************************************)
\* Array.prototype.join
RECURSIVE Join(_, _)
Join(list, sep) ==
    IF list = <<>> THEN <<>>
    ELSE IF Len(list) = 1 THEN list[1]
    ELSE list[1] \o sep \o Join(Tail(list), sep)

\* list.map((k) => `${label}${k}`)
Labelled(list, label) == [i \in 1..Len(list) |-> label \o list[i]]

\* Object.keys(contentMap)
Keys(contentMap) == [i \in 1..Len(contentMap) |-> contentMap[i].name]

\* contentMap[k]
TextOf(contentMap, k) ==
    contentMap[CHOOSE i \in 1..Len(contentMap) : contentMap[i].name = k].text

(***************************************************************************)
(* src/analysis/search.ts                                                  *)
(***************************************************************************)
\* searchUsage that stops at the first artifact that matches
searchUsageFirstHit(contentMap, needle) ==
    LET hits == SelectSeq(contentMap, LAMBDA e : containsField(e.text, needle))
    IN  IF hits = <<>> THEN <<>> ELSE hits[1].name

\* searchUsage(contentMap, needle)
searchUsage(contentMap, needle) ==
    LET matches == SelectSeq(Keys(contentMap),
                             LAMBDA name : containsField(TextOf(contentMap, name), needle))
    IN  Join(matches, <<";", " ">>)

Label_Apex == <<"A","p","e","x",":"," ">>
Label_Flow == <<"F","l","o","w",":"," ">>
Label_ValidationRule == <<"V","a","l","i","d","a","t","i","o","n","R","u","l","e",":"," ">>
Label_DuplicateRule == <<"D","u","p","l","i","c","a","t","e","R","u","l","e",":"," ">>
Label_Report == <<"R","e","p","o","r","t",":"," ">>
Label_EmailTemplate == <<"E","m","a","i","l","T","e","m","p","l","a","t","e",":"," ">>
Label_LWC == <<"L","W","C",":"," ">>
Label_Aura == <<"A","u","r","a",":"," ">>
Label_Profile == <<"P","r","o","f","i","l","e",":"," ">>
Label_PermSet == <<"P","e","r","m","S","e","t",":"," ">>

\* for (const k of Object.keys(m)) if (containsField(m[k], f)) refs.push(`<label>${k}`)
RefsOf(contentMap, label, f) ==
    Labelled(SelectSeq(Keys(contentMap),
                       LAMBDA k : containsField(TextOf(contentMap, k), f)),
             label)

\* if (extras?.<key>) for (const k of Object.keys(extras.<key>)) ...
ExtraRefsOf(extras, key, label, f) ==
    IF key \in DOMAIN extras THEN RefsOf(extras[key], label, f) ELSE <<>>

\* The refs array of collectReferences, before it is joined.  extras is a
\* record that holds the optional corpora that were supplied.
collectedRefs(apex, flow, vr, dup, report, email, f, extras) ==
    RefsOf(apex, Label_Apex, f)
    \o RefsOf(flow, Label_Flow, f)
    \o RefsOf(vr, Label_ValidationRule, f)
    \o RefsOf(dup, Label_DuplicateRule, f)
    \o RefsOf(report, Label_Report, f)
    \o RefsOf(email, Label_EmailTemplate, f)
    \o ExtraRefsOf(extras, "lwc", Label_LWC, f)
    \o ExtraRefsOf(extras, "aura", Label_Aura, f)
    \o ExtraRefsOf(extras, "profiles", Label_Profile, f)
    \o ExtraRefsOf(extras, "permsets", Label_PermSet, f)

\* collectReferences(apex, flow, vr, dup, report, email, fieldName, extras)
collectReferences(apex, flow, vr, dup, report, email, f, extras) ==
    Join(collectedRefs(apex, flow, vr, dup, report, email, f, extras), <<";", "\n">>)

\* { k1: maps.k1, ... }: an object literal whose properties are read from
\* maps; a property of a corpus that maps does not hold is undefined.
Pick(m, keys) == [k \in (keys \cap DOMAIN m) |-> m[k]]

(***************************************************************************)
(* src/analysis/fields.ts (src/unnamed/part_002)                           *)
(*                                                                         *)
(* The value xml2js gives for a field document (explicitArray: true) is a  *)
(* record: xml.CustomField is the root element, and every child of an      *)
(* element is the array of its occurrences.  An element that is absent is  *)
(* a key that is not in the record.  Leaf values are strings.              *)
(***************************************************************************)
S_Text == <<"T","e","x","t">>
S_Html == <<"H","t","m","l">>
S_LongTextArea == <<"L","o","n","g","T","e","x","t","A","r","e","a">>
S_Number == <<"N","u","m","b","e","r">>
S_Currency == <<"C","u","r","r","e","n","c","y">>
S_Lookup == <<"L","o","o","k","u","p">>
S_true == <<"t","r","u","e">>
S_TRUE == <<"T","R","U","E">>
S_FALSE == <<"F","A","L","S","E">>

WhiteSpace == {" ", "\t", "\n", "\r"}

RECURSIVE TrimStart(_)
TrimStart(s) ==
    IF s # <<>> /\ Head(s) \in WhiteSpace THEN TrimStart(Tail(s)) ELSE s

RECURSIVE TrimEnd(_)
TrimEnd(s) ==
    IF s # <<>> /\ s[Len(s)] \in WhiteSpace THEN TrimEnd(SubSeq(s, 1, Len(s) - 1)) ELSE s

\* String.prototype.trim
trim(s) == TrimEnd(TrimStart(s))

\* readXmlFieldValue(obj, pathChain)
RECURSIVE readXmlFieldValue(_, _)
readXmlFieldValue(obj, pathChain) ==
    IF pathChain = <<>>
    THEN IF Len(obj) = 0 THEN <<>> ELSE obj[1]
    ELSE IF Head(pathChain) \notin DOMAIN obj THEN <<>>
    ELSE readXmlFieldValue(obj[Head(pathChain)], Tail(pathChain))

\* customField?.<key>?.[0], with undefined as the empty string (every use
\* tests it for truthiness before it is used)
First(node, key) ==
    IF key \notin DOMAIN node THEN <<>>
    ELSE IF Len(node[key]) = 0 THEN <<>>
    ELSE node[key][1]

\* getPicklistValues with the two returns in the other order: the name of
\* the shared value set first, the literal values when there is none
getPicklistValuesSharedFirst(customField) ==
    IF "valueSet" \notin DOMAIN customField \/ Len(customField.valueSet) = 0
    THEN [values |-> <<>>, controlling |-> <<>>]
    ELSE LET vs == customField.valueSet[1]
             controlling == IF "controllingField" \in DOMAIN vs
                            THEN vs.controllingField[1] ELSE <<>>
             vals == IF "valueSetDefinition" \in DOMAIN vs
                        /\ Len(vs.valueSetDefinition) > 0
                        /\ "value" \in DOMAIN vs.valueSetDefinition[1]
                     THEN vs.valueSetDefinition[1].value ELSE <<>>
             names == SelectSeq([i \in 1..Len(vals) |-> First(vals[i], "fullName")],
                                LAMBDA n : n # <<>>)
             vsetName == First(vs, "valueSetName")
         IN  IF vsetName # <<>>
             THEN [values |-> vsetName, controlling |-> controlling]
             ELSE [values |-> Join(names, <<",", " ">>), controlling |-> controlling]

\* getPicklistValues(customField)
getPicklistValues(customField) ==
    IF "valueSet" \notin DOMAIN customField \/ Len(customField.valueSet) = 0
    THEN [values |-> <<>>, controlling |-> <<>>]
    ELSE LET vs == customField.valueSet[1]
             controlling == IF "controllingField" \in DOMAIN vs
                            THEN vs.controllingField[1] ELSE <<>>
             vals == IF "valueSetDefinition" \in DOMAIN vs
                        /\ Len(vs.valueSetDefinition) > 0
                        /\ "value" \in DOMAIN vs.valueSetDefinition[1]
                     THEN vs.valueSetDefinition[1].value ELSE <<>>
             names == SelectSeq([i \in 1..Len(vals) |-> First(vals[i], "fullName")],
                                LAMBDA n : n # <<>>)
             vsetName == First(vs, "valueSetName")
         IN  IF Len(vals) > 0 /\ Len(names) > 0
             THEN [values |-> Join(names, <<",", " ">>), controlling |-> controlling]
             ELSE IF vsetName # <<>>
             THEN [values |-> vsetName, controlling |-> controlling]
             ELSE [values |-> <<>>, controlling |-> controlling]

\* getFieldLength with [p, s].join(", "): the two parts joined whether or
\* not they are there
getFieldLengthUnfiltered(customField, fieldType) ==
    LET t == trim(fieldType)
    IN  IF t = S_Text \/ t = S_Html \/ t = S_LongTextArea
        THEN First(customField, "length")
        ELSE IF t = S_Number \/ t = S_Currency \/ t = S_Currency \o <<" ">>
        THEN Join(<<First(customField, "precision"), First(customField, "scale")>>,
                  <<",", " ">>)
        ELSE <<>>

\* getFieldLength(customField, fieldType)
getFieldLength(customField, fieldType) ==
    LET t == trim(fieldType)
    IN  IF t = S_Text \/ t = S_Html \/ t = S_LongTextArea
        THEN First(customField, "length")
        ELSE IF t = S_Number \/ t = S_Currency \/ t = S_Currency \o <<" ">>
        THEN Join(SelectSeq(<<First(customField, "precision"), First(customField, "scale")>>,
                            LAMBDA x : x # <<>>),
                  <<",", " ">>)
        ELSE <<>>

\* What JavaScript gives for a property that is not there.
Undefined == <<"undefined">>

\* maps.lastModified[key], without ?? ""
LastModifiedOfNullable(m, key) ==
    IF key \in DOMAIN m.lastModified THEN m.lastModified[key] ELSE Undefined

\* maps.lastModified[key] ?? ""
LastModifiedOf(m, key) ==
    IF key \in DOMAIN m.lastModified THEN m.lastModified[key] ELSE <<>>

\* Object.keys(maps.<key> || {}).filter(k => maps.<key> && maps.<key>[k]
\*   && maps.<key>[k].includes(name)).map(k => `<label>${k}`)
AccessRefsOf(m, key, label, name) ==
    IF key \notin DOMAIN m THEN <<>>
    ELSE Labelled(SelectSeq(Keys(m[key]),
                            LAMBDA k : TextOf(m[key], k) # <<>>
                                       /\ includes(TextOf(m[key], k), name)),
                  label)

\* [...profilesRefs, ...permsetRefs].join(";\n")
profilesAndPermSets(m, name) ==
    Join(AccessRefsOf(m, "profiles", Label_Profile, name)
         \o AccessRefsOf(m, "permsets", Label_PermSet, name), <<";", "\n">>)

\* readXmlFieldValue(xml, ["CustomField", "referenceTo"]) || "", whatever
\* the type
lookupRefOfAnyType(xml, fieldType) ==
    readXmlFieldValue(xml, <<"CustomField", "referenceTo">>)

\* (fieldType === "Lookup" ? readXmlFieldValue(xml, ["CustomField",
\*   "referenceTo"]) : "") || ""
lookupRef(xml, fieldType) ==
    IF fieldType = S_Lookup
    THEN readXmlFieldValue(xml, <<"CustomField", "referenceTo">>)
    ELSE <<>>

\* requiredRaw === "true" ? "TRUE" : "FALSE", with requiredRaw as it is in
\* the document
isRequiredAsWritten(xml) ==
    IF readXmlFieldValue(xml, <<"CustomField", "required">>) = S_true
    THEN S_TRUE ELSE S_FALSE

\* requiredRaw = readXmlFieldValue(xml, ["CustomField", "required"])
\*   .toLowerCase(); isRequired = requiredRaw === "true" ? "TRUE" : "FALSE"
isRequired(xml) ==
    IF toLowerCase(readXmlFieldValue(xml, <<"CustomField", "required">>)) = S_true
    THEN S_TRUE ELSE S_FALSE

\* The keys of the object literal processFields pushes, in the order they
\* are written, which is the order Object.keys gives.
pushedColumns ==
    << "FieldName", "FieldLabel", "Description", "FieldType", "Formula",
      "FieldLength", "LookupRef", "Required", "HistoryTracking", "PicklistValues",
      "ControllingField", "LastModifiedDate", "Layouts", "Flexipages", "RecordTypes",
      "References", "ProfilesAndPermSets" >>

\* The body of the loop of processFields for a document with a root
\* element: the row it pushes.
processFieldsRow(xml, m) ==
    LET cf        == xml.CustomField
        name      == readXmlFieldValue(xml, <<"CustomField", "fullName">>)
        fieldType == readXmlFieldValue(xml, <<"CustomField", "type">>)
        picklist  == getPicklistValues(cf)
    IN  [FieldName |-> name,
         FieldLabel |-> readXmlFieldValue(xml, <<"CustomField", "label">>),
         Description |-> readXmlFieldValue(xml, <<"CustomField", "description">>),
         FieldType |-> fieldType,
         Formula |-> readXmlFieldValue(xml, <<"CustomField", "formula">>),
         FieldLength |-> getFieldLength(cf, fieldType),
         LookupRef |-> lookupRef(xml, fieldType),
         Required |-> isRequired(xml),
         HistoryTracking |-> readXmlFieldValue(xml, <<"CustomField", "trackHistory">>),
         PicklistValues |-> picklist.values,
         ControllingField |-> picklist.controlling,
         LastModifiedDate |-> LastModifiedOf(m, toLowerCase(name)),
         Layouts |-> searchUsage(m.layout, name),
         Flexipages |-> searchUsage(m.flexipage, name),
         RecordTypes |-> searchUsage(m.recordType, name),
         References |-> collectReferences(m.apex, m.flow, m.vr, m.dup, m.report, m.email,
                                          name, Pick(m, {"lwc", "aura"})),
         ProfilesAndPermSets |-> profilesAndPermSets(m, name)]

(***************************************************************************)
(* src/analysis/standard.ts (src/unnamed/part_003)                         *)
(***************************************************************************)
\* new Set(existingRows.map((r) => r.FieldName)), the names as they are
existingNamesAsWritten(existingRows) ==
    {existingRows[i].FieldName : i \in 1..Len(existingRows)}

\* new Set(existingRows.map((r) => r.FieldName.toLowerCase()))
existingNames(existingRows) ==
    {toLowerCase(existingRows[i].FieldName) : i \in 1..Len(existingRows)}

\* existingNames.has(name), the name as it is
isExistingAsWritten(names, name) == name \in names

\* existingNames.has(name.toLowerCase())
isExisting(names, name) == toLowerCase(name) \in names

\* [...profilesRefs, ...permsetRefs].join(";\n") of mergeStandardFields
mergeProfilesAndPermSets(m, name) ==
    Join(AccessRefsOf(m, "profiles", Label_Profile, name)
         \o AccessRefsOf(m, "permsets", Label_PermSet, name), <<";", "\n">>)

\* The row of a remote pair with LastModifiedDate looked up as
\* processFields looks it up
mergeRowWithLastModified(def, m) ==
    LET name == def.QualifiedApiName
    IN  [FieldName |-> name,
         FieldLabel |-> <<>>,
         Description |-> <<>>,
         FieldType |-> def.DataType,
         Formula |-> <<>>,
         FieldLength |-> <<>>,
         LookupRef |-> <<>>,
         Required |-> S_FALSE,
         HistoryTracking |-> <<>>,
         PicklistValues |-> <<>>,
         ControllingField |-> <<>>,
         LastModifiedDate |-> LastModifiedOf(m, toLowerCase(name)),
         Layouts |-> searchUsage(m.layout, name),
         Flexipages |-> searchUsage(m.flexipage, name),
         RecordTypes |-> searchUsage(m.recordType, name),
         References |-> collectReferences(m.apex, m.flow, m.vr, m.dup, m.report, m.email,
                                          name, Pick(m, {"lwc", "aura", "profiles", "permsets"})),
         ProfilesAndPermSets |-> mergeProfilesAndPermSets(m, name)]

\* The keys of the object literal mergeStandardFields pushes, in the order
\* they are written.
mergedColumns ==
    << "FieldName", "FieldLabel", "Description", "FieldType", "Formula",
      "FieldLength", "LookupRef", "Required", "HistoryTracking", "PicklistValues",
      "ControllingField", "LastModifiedDate", "Layouts", "Flexipages", "RecordTypes",
      "References", "ProfilesAndPermSets" >>

\* The row mergeStandardFields pushes for a pair that is not skipped.
mergeRow(def, m) ==
    LET name == def.QualifiedApiName
    IN  [FieldName |-> name,
         FieldLabel |-> <<>>,
         Description |-> <<>>,
         FieldType |-> def.DataType,
         Formula |-> <<>>,
         FieldLength |-> <<>>,
         LookupRef |-> <<>>,
         Required |-> S_FALSE,
         HistoryTracking |-> <<>>,
         PicklistValues |-> <<>>,
         ControllingField |-> <<>>,
         LastModifiedDate |-> <<>>,
         Layouts |-> searchUsage(m.layout, name),
         Flexipages |-> searchUsage(m.flexipage, name),
         RecordTypes |-> searchUsage(m.recordType, name),
         References |-> collectReferences(m.apex, m.flow, m.vr, m.dup, m.report, m.email,
                                          name, Pick(m, {"lwc", "aura", "profiles", "permsets"})),
         ProfilesAndPermSets |-> mergeProfilesAndPermSets(m, name)]

\* for (const def of fieldDefs) { ... }: names is the set built before the
\* loop, which the loop does not add to.
RECURSIVE mergeLoop(_, _, _, _)
mergeLoop(mergedRows, defs, names, m) ==
    IF defs = <<>> THEN mergedRows
    ELSE LET def == Head(defs)
             name == def.QualifiedApiName
         IN  IF name = <<>> \/ isExisting(names, name)
             THEN mergeLoop(mergedRows, Tail(defs), names, m)
             ELSE mergeLoop(Append(mergedRows, mergeRow(def, m)), Tail(defs), names, m)

\* mergeStandardFields(existingRows, fieldDefs, maps)
mergeStandardFields(existingRows, defs, m) ==
    mergeLoop(existingRows, defs, existingNames(existingRows), m)

\* const merged = existingRows: the rows are pushed onto the caller's array,
\* which then holds what the call returns
existingRowsAliased(existingRows, defs, m) ==
    mergeStandardFields(existingRows, defs, m)

\* const merged = [...existingRows]: the rows are pushed onto a copy, so the
\* caller's array holds after the call what it held before
existingRowsAfterMerge(existingRows, defs, m) == existingRows

(***************************************************************************)
(* The inputs of the model.                                                *)
(***************************************************************************)
RECURSIVE SeqsUpTo(_, _)
SeqsUpTo(S, n) ==
    IF n = 0 THEN {<<>>}
    ELSE LET shorter == SeqsUpTo(S, n - 1)
         IN  shorter \cup {Append(s, x) : s \in {t \in shorter : Len(t) = n - 1}, x \in S}

\* Artifact texts: none, a whole-word occurrence of "Ab" and of "b", an
\* occurrence of "ab" inside a longer identifier, and "AB" alone.
CorpusTexts == { <<>>,
                 <<"A","b"," ","b">>,
                 <<"a","a","b">>,
                 <<"A","B">> }

Entry(name, txt) == [name |-> name, text |-> txt]

\* The corpora of one run: the nine categories that are always passed, and
\* the four optional ones when they are supplied.  dup is an empty corpus.
Corpora(t1, t2, withOptional) ==
    LET always ==
          [lastModified |-> (<<"a","b">> :> <<"2","0","2","5">>),
           apex       |-> <<Entry(<<"A","1">>, t1), Entry(<<"A","2">>, t2)>>,
           flow       |-> <<Entry(<<"W","1">>, t2)>>,
           vr         |-> <<Entry(<<"V","1">>, t1)>>,
           dup        |-> <<>>,
           layout     |-> <<Entry(<<"L","1">>, t1), Entry(<<"L","2">>, t2)>>,
           recordType |-> <<Entry(<<"R","1">>, t2)>>,
           flexipage  |-> <<Entry(<<"F","1">>, t1)>>,
           report     |-> <<Entry(<<"P","1">>, t2)>>,
           email      |-> <<Entry(<<"E","1">>, t1)>>]
        optional ==
          [lwc      |-> <<Entry(<<"C","1">>, t2)>>,
           aura     |-> <<Entry(<<"U","1">>, t1)>>,
           profiles |-> <<Entry(<<"Q","1">>, t1), Entry(<<"Q","2">>, t2)>>,
           permsets |-> <<Entry(<<"S","1">>, t2)>>]
    IN  IF withOptional THEN always @@ optional ELSE always

\* What preloadTextContent returns for the optional folders of a project
\* that has none of them: {}.
EmptyOptional ==
    [lwc |-> <<>>, aura |-> <<>>, profiles |-> <<>>, permsets |-> <<>>]

\* Every pair of texts with the optional corpora supplied, and every text
\* without them.
CorporaInputs ==
    {Corpora(t1, t2, TRUE) : t1 \in CorpusTexts, t2 \in CorpusTexts}
    \cup {Corpora(t, t, FALSE) : t \in CorpusTexts}

\* What parseStringPromise gives for a field document: it throws for a
\* malformed one, gives an object without CustomField for another root
\* element, and the parsed CustomField otherwise.
Malformed == [wellFormed |-> FALSE, xml |-> [x \in {} |-> <<>>]]
OtherRoot == [wellFormed |-> TRUE, xml |-> [CustomObject |-> [label |-> << <<"C">> >>]]]
TextField ==
    [wellFormed |-> TRUE,
     xml |-> [CustomField |->
                [fullName |-> << <<"A","b">> >>,
                 label    |-> << <<"A"," ","b">> >>,
                 type     |-> << S_Text >>,
                 length   |-> << <<"8","0">> >>,
                 referenceTo |-> << <<"A","c","c">> >>,
                 required |-> << <<"T","r","u","e">> >>]]]
Nameless ==
    [wellFormed |-> TRUE,
     xml |-> [CustomField |->
                [type        |-> << S_Lookup >>,
                 referenceTo |-> << <<"A","c","c">> >>]]]

FieldDocuments == {Malformed, OtherRoot, TextField, Nameless}

S_string == <<"s","t","r","i","n","g">>

\* The pairs of a remote inventory: two casings of the local name, another
\* name, and a row without a name.
RemotePairs ==
    { [QualifiedApiName |-> n, DataType |-> S_string] :
        n \in { <<"a","b">>, <<"A","B">>, <<"b">>, <<>> } }

(***************************************************************************)
(* Spec: a caller that runs processFields and then mergeStandardFields,    *)
(* and merges the same inventory into the result once more.                *)
(***************************************************************************)
\* No call of preloadTextContent.
LoadIdle ==
    /\ loadFiles = <<>>
    /\ unreadable = {}
    /\ pending = <<>>
    /\ content = <<>>
    /\ lpc = <<>>

NoWorkbook == [written |-> FALSE, rows |-> <<>>]

\* fs.existsSync(tempCsv) is false
NoCsv == [exists |-> FALSE, parses |-> TRUE, records |-> <<>>]

\* No run of the command line.
RunIdle ==
    /\ args = [dryRun |-> FALSE, includeStandard |-> FALSE, csv |-> FALSE, noOpen |-> FALSE]
    /\ tempCsv = NoCsv
    /\ queryOutcome = "none"
    /\ fetchOutcome = "none"
    /\ loaded = 0
    /\ rows = <<>>
    /\ runError = "none"
    /\ printed = "none"
    /\ warned = FALSE
    /\ excel = NoWorkbook
    /\ csvWritten = FALSE
    /\ opened = FALSE
    /\ exitCode = -1
    /\ cliCalls = 0
    /\ rpc = "idle"

MatchIdle ==
    /\ text = <<>>
    /\ fieldName = <<>>
    /\ opts = DefaultOpts
    /\ outcome = NoOutcome
    /\ mpc = "idle"

Init ==
    /\ MatchIdle
    /\ LoadIdle
    /\ RunIdle
    /\ dirExists \in BOOLEAN
    /\ maps \in CorporaInputs
    /\ fieldFiles = <<>>
    /\ idx = 0
    /\ results = <<>>
    /\ error = "none"
    /\ filesRead = 0
    /\ fieldsMatched = 0
    /\ dirChecks = 0
    /\ globCalls = 0
    /\ fieldDefs = <<>>
    /\ mergeInput = <<>>
    /\ merged = <<>>
    /\ pc = "start"

\* if (!fs.existsSync(objectFieldsPath)) throw new Error("Fields folder not found ...")
CheckFieldsFolder ==
    /\ pc = "start"
    /\ dirChecks' = dirChecks + 1
    /\ IF dirExists
       THEN pc' = "glob" /\ error' = error
       ELSE pc' = "threw" /\ error' = "Fields folder not found"
    /\ UNCHANGED <<matchVars, loadVars, runVars, dirExists, maps, fieldFiles, idx, results, filesRead,
                   fieldsMatched, globCalls, mergeVars>>

\* const fieldFiles = await fg([fieldGlob]); if (fieldFiles.length === 0) throw ...
\* without the test of the length
DiscoverFieldFilesUnchecked ==
    /\ pc = "glob"
    /\ globCalls' = globCalls + 1
    /\ fieldFiles' \in SeqsUpTo(FieldDocuments, MaxDocs)
    /\ pc' = "loop" /\ idx' = 1 /\ error' = error
    /\ UNCHANGED <<matchVars, loadVars, runVars, dirExists, maps, results, filesRead, fieldsMatched,
                   dirChecks, mergeVars>>

\* const fieldFiles = await fg([fieldGlob]); if (fieldFiles.length === 0) throw ...
DiscoverFieldFiles ==
    /\ pc = "glob"
    /\ globCalls' = globCalls + 1
    /\ fieldFiles' \in SeqsUpTo(FieldDocuments, MaxDocs)
    /\ IF Len(fieldFiles') = 0
       THEN pc' = "threw" /\ error' = "No field metadata files found" /\ idx' = idx
       ELSE pc' = "loop" /\ idx' = 1 /\ error' = error
    /\ UNCHANGED <<matchVars, loadVars, runVars, dirExists, maps, results, filesRead, fieldsMatched,
                   dirChecks, mergeVars>>

\* The turn of the loop with Object.keys(maps.profiles) in place of
\* Object.keys(maps.profiles || {}): a TypeError when the corpus is absent
ProcessFieldFileStrictCorpora ==
    /\ pc = "loop"
    /\ idx <= Len(fieldFiles)
    /\ filesRead' = filesRead + 1
    /\ LET doc == fieldFiles[idx]
       IN  IF ~doc.wellFormed
           THEN /\ pc' = "threw"
                /\ error' = "parse error"
                /\ UNCHANGED <<idx, results, fieldsMatched>>
           ELSE IF "CustomField" \notin DOMAIN doc.xml
           THEN /\ idx' = idx + 1
                /\ UNCHANGED <<pc, error, results, fieldsMatched>>
           ELSE IF "profiles" \notin DOMAIN maps \/ "permsets" \notin DOMAIN maps
           THEN /\ pc' = "threw"
                /\ error' = "TypeError"
                /\ UNCHANGED <<idx, results, fieldsMatched>>
           ELSE /\ results' = Append(results, processFieldsRow(doc.xml, maps))
                /\ fieldsMatched' = fieldsMatched + 1
                /\ idx' = idx + 1
                /\ UNCHANGED <<pc, error>>
    /\ UNCHANGED <<matchVars, loadVars, runVars, dirExists, maps, fieldFiles, dirChecks, globCalls, mergeVars>>

\* The References of a row whose array of references was declared outside
\* the loop, so that it still holds the entries of the rows before it.
CarriedOver(before, own) ==
    IF before = <<>> THEN own
    ELSE IF own = <<>> THEN before
    ELSE before \o <<";", "\n">> \o own

\* The turn of the loop with the array of references shared by all fields
ProcessFieldFileSharedRefs ==
    /\ pc = "loop"
    /\ idx <= Len(fieldFiles)
    /\ filesRead' = filesRead + 1
    /\ LET doc == fieldFiles[idx]
       IN  IF ~doc.wellFormed
           THEN /\ pc' = "threw"
                /\ error' = "parse error"
                /\ UNCHANGED <<idx, results, fieldsMatched>>
           ELSE IF "CustomField" \notin DOMAIN doc.xml
           THEN /\ idx' = idx + 1
                /\ UNCHANGED <<pc, error, results, fieldsMatched>>
           ELSE /\ results' = Append(results, [processFieldsRow(doc.xml, maps) EXCEPT
                                  !.References =
                                      CarriedOver(IF results = <<>> THEN <<>>
                                                  ELSE results[Len(results)].References,
                                                  @)])
                /\ fieldsMatched' = fieldsMatched + 1
                /\ idx' = idx + 1
                /\ UNCHANGED <<pc, error>>
    /\ UNCHANGED <<matchVars, loadVars, runVars, dirExists, maps, fieldFiles, dirChecks, globCalls, mergeVars>>

\* One turn of for (const file of fieldFiles): read, parse, skip or push.
ProcessFieldFile ==
    /\ pc = "loop"
    /\ idx <= Len(fieldFiles)
    /\ filesRead' = filesRead + 1
    /\ LET doc == fieldFiles[idx]
       IN  IF ~doc.wellFormed
           THEN /\ pc' = "threw"
                /\ error' = "parse error"
                /\ UNCHANGED <<idx, results, fieldsMatched>>
           ELSE IF "CustomField" \notin DOMAIN doc.xml
           THEN /\ idx' = idx + 1
                /\ UNCHANGED <<pc, error, results, fieldsMatched>>
           ELSE /\ results' = Append(results, processFieldsRow(doc.xml, maps))
                /\ fieldsMatched' = fieldsMatched + 1
                /\ idx' = idx + 1
                /\ UNCHANGED <<pc, error>>
    /\ UNCHANGED <<matchVars, loadVars, runVars, dirExists, maps, fieldFiles, dirChecks, globCalls, mergeVars>>

\* return results
ReturnResults ==
    /\ pc = "loop"
    /\ idx > Len(fieldFiles)
    /\ pc' = "returned"
    /\ UNCHANGED <<matchVars, loadVars, runVars, fieldsVars, mergeVars>>

\* results = mergeStandardFields(results, defs, maps)
MergeStandardFields ==
    /\ pc = "returned"
    /\ fieldDefs' \in SeqsUpTo(RemotePairs, MaxDefs)
    /\ mergeInput' = results
    /\ merged' = mergeStandardFields(results, fieldDefs', maps)
    /\ results' = existingRowsAfterMerge(results, fieldDefs', maps)
    /\ pc' = "merged"
    /\ UNCHANGED <<matchVars, loadVars, runVars, dirExists, maps, fieldFiles, idx, error,
                   filesRead, fieldsMatched, dirChecks, globCalls>>

\* mergeStandardFields(merged, defs, maps): the same inventory merged into
\* the rows the first merge returned
MergeAgain ==
    /\ pc = "merged"
    /\ mergeInput' = merged
    /\ merged' = mergeStandardFields(merged, fieldDefs, maps)
    /\ pc' = "mergedAgain"
    /\ UNCHANGED <<matchVars, loadVars, runVars, fieldsVars, fieldDefs>>

Next ==
    \/ CheckFieldsFolder
    \/ DiscoverFieldFiles
    \/ ProcessFieldFile
    \/ ReturnResults
    \/ MergeStandardFields
    \/ MergeAgain

Spec == Init /\ [][Next]_vars

(***************************************************************************)
(* SpecRows: the same caller over inventories that differ in the optional  *)
(* corpora: supplied, supplied and empty, and not supplied.                *)
(***************************************************************************)
RowsInputs ==
    { Corpora(<<"A","b"," ","b">>, <<"a","a","b">>, TRUE),
      Corpora(<<"a","a","b">>, <<"A","b"," ","b">>, TRUE),
      Corpora(<<"A","b"," ","b">>, <<"a","a","b">>, FALSE) @@ EmptyOptional,
      Corpora(<<"A","b"," ","b">>, <<"A","b"," ","b">>, FALSE) }

InitRows ==
    /\ MatchIdle
    /\ LoadIdle
    /\ RunIdle
    /\ dirExists \in BOOLEAN
    /\ maps \in RowsInputs
    /\ fieldFiles = <<>>
    /\ idx = 0
    /\ results = <<>>
    /\ error = "none"
    /\ filesRead = 0
    /\ fieldsMatched = 0
    /\ dirChecks = 0
    /\ globCalls = 0
    /\ fieldDefs = <<>>
    /\ mergeInput = <<>>
    /\ merged = <<>>
    /\ pc = "start"

SpecRows == InitRows /\ [][Next]_vars

FieldsIdle ==
    /\ dirExists = FALSE
    /\ maps = Corpora(<<>>, <<>>, FALSE)
    /\ fieldFiles = <<>>
    /\ idx = 0
    /\ results = <<>>
    /\ error = "none"
    /\ filesRead = 0
    /\ fieldsMatched = 0
    /\ dirChecks = 0
    /\ globCalls = 0
    /\ fieldDefs = <<>>
    /\ mergeInput = <<>>
    /\ merged = <<>>
    /\ pc = "idle"

(***************************************************************************)
(* SpecMatch: containsField applied to every text and identifier within    *)
(* the bounds, under every option setting.                                 *)
(***************************************************************************)
InitMatch ==
    /\ text \in StringsUpTo(MaxTextLen)
    /\ fieldName \in StringsUpTo(MaxNameLen)
    /\ opts \in [ignoreCase : BOOLEAN, wholeWord : BOOLEAN]
    /\ outcome = NoOutcome
    /\ mpc = "call"
    /\ FieldsIdle
    /\ LoadIdle
    /\ RunIdle

ContainsFieldCall ==
    /\ mpc = "call"
    /\ outcome' = containsFieldOpts(text, fieldName, opts)
    /\ mpc' = "returned"
    /\ UNCHANGED <<text, fieldName, opts, fieldsVars, mergeVars, pc, loadVars, runVars>>

NextMatch == ContainsFieldCall

SpecMatch == InitMatch /\ [][NextMatch]_vars

(***************************************************************************)
(* SpecParse: processFields over a folder that holds one field document,   *)
(* for every document of ParseDocuments.                                   *)
(***************************************************************************)
MaxPicklistValues == 2

S_Picklist == <<"P","i","c","k","l","i","s","t">>

\* An element of a document: absent when value is Absent, else one
\* occurrence with that value.
Absent == <<"absent">>

Element(key, value) == IF value = Absent THEN <<>> ELSE key :> <<value>>

\* The data types of the documents: the five that carry a length, two
\* others, two with white space around the name, and no type element.
ParseTypes ==
    {S_Text, S_Html, S_LongTextArea, S_Number, S_Currency, S_Lookup, S_Picklist,
     <<" ">> \o S_Text, S_Currency \o <<" ">>, Absent}

S_True == <<"T","r","u","e">>

RequiredValues == {Absent, S_true, S_True, S_FALSE}

\* <value> elements of a value set definition: two with a name and one
\* without.
PicklistValueNodes ==
    { [fullName |-> << <<"H","i">> >>], [fullName |-> << <<"L","o">> >>],
      [label |-> << <<"x">> >>] }

S_ValueSetName == <<"G","l","o","b","a","l">>
S_Controlling == <<"C","t","l">>

\* <valueSet> elements: with up to MaxPicklistValues literal values, with
\* or without the name of a shared value set and a controlling field.
ValueSets ==
    { (IF vals = <<>> THEN <<>>
       ELSE "valueSetDefinition" :> << [value |-> vals] >>)
      @@ Element("valueSetName", vsetName)
      @@ Element("controllingField", controlling) :
        vals \in SeqsUpTo(PicklistValueNodes, MaxPicklistValues),
        vsetName \in {Absent, S_ValueSetName},
        controlling \in {Absent, S_Controlling} }

ParseDocuments ==
    { [wellFormed |-> TRUE,
       xml |-> [CustomField |->
                  Element("fullName", <<"A","b">>)
                  @@ Element("type", t)
                  @@ Element("length", len)
                  @@ Element("precision", p)
                  @@ Element("scale", sc)
                  @@ Element("referenceTo", ref)
                  @@ Element("required", req)
                  @@ vsPart]] :
        t \in ParseTypes,
        len \in {Absent, <<"8","0">>},
        p \in {Absent, <<"1","8">>},
        sc \in {Absent, <<"2">>},
        ref \in {Absent, <<"A","c","c">>},
        req \in RequiredValues,
        vsPart \in {<<>>} \cup {"valueSet" :> <<vs>> : vs \in ValueSets} }

InitParse ==
    /\ MatchIdle
    /\ LoadIdle
    /\ RunIdle
    /\ dirExists = TRUE
    /\ maps = Corpora(<<>>, <<>>, FALSE)
    /\ fieldFiles = <<>>
    /\ idx = 0
    /\ results = <<>>
    /\ error = "none"
    /\ filesRead = 0
    /\ fieldsMatched = 0
    /\ dirChecks = 0
    /\ globCalls = 0
    /\ fieldDefs = <<>>
    /\ mergeInput = <<>>
    /\ merged = <<>>
    /\ pc = "start"

\* fieldFiles = await fg(`${fieldsDir}/**/*.field-meta.xml`) over a folder
\* that holds one document
DiscoverParseDocument ==
    /\ pc = "glob"
    /\ globCalls' = globCalls + 1
    /\ \E doc \in ParseDocuments : fieldFiles' = <<doc>>
    /\ pc' = "loop"
    /\ idx' = 1
    /\ UNCHANGED <<matchVars, loadVars, runVars, dirExists, maps, results, error, filesRead,
                   fieldsMatched, dirChecks, mergeVars>>

NextParse ==
    \/ CheckFieldsFolder
    \/ DiscoverParseDocument
    \/ ProcessFieldFile
    \/ ReturnResults

SpecParse == InitParse /\ [][NextParse]_vars

(***************************************************************************)
(* src/loaders/glob.ts.  SpecLoad: preloadTextContent called in two runs   *)
(* over the same files.  The reads are started together and each           *)
(* completes on its own, in any order; a completed read stores its text    *)
(* under the base name of the file.                                        *)
(***************************************************************************)
MaxFiles == 2

Runs == {1, 2}

\* The files of the repository that the patterns match: two classes and a
\* trigger with the base name of one of the classes.
LoadPaths ==
    { [dir |-> "classes", base |-> <<"A","1">>],
      [dir |-> "classes", base |-> <<"A","2">>],
      [dir |-> "triggers", base |-> <<"A","1">>] }

\* The text on disk of a file.
FileText(f) == IF f.dir = "classes" THEN <<"A","b"," ","b">> ELSE <<"b">>

\* path.basename(f)
basename(f) == f.base

\* content[key] = txt: a new key goes last, a key that is there keeps its
\* place and takes the new text
SetProperty(contentMap, key, txt) ==
    IF \E i \in 1..Len(contentMap) : contentMap[i].name = key
    THEN [i \in 1..Len(contentMap) |->
            IF contentMap[i].name = key THEN Entry(key, txt) ELSE contentMap[i]]
    ELSE Append(contentMap, Entry(key, txt))

\* What fg() can return: the matching files, each once, in its order.
GlobResults ==
    {fs \in SeqsUpTo(LoadPaths, MaxFiles) :
        \A i, j \in 1..Len(fs) : i # j => fs[i] # fs[j]}

InitLoad ==
    /\ MatchIdle
    /\ FieldsIdle
    /\ RunIdle
    /\ loadFiles \in GlobResults
    /\ unreadable \in SUBSET {loadFiles[i] : i \in 1..Len(loadFiles)}
    /\ pending = [r \in Runs |-> {}]
    /\ content = [r \in Runs |-> <<>>]
    /\ lpc = [r \in Runs |-> "call"]

\* files = await fg(posixPatterns); content = {}; files.map(async (f) =>
\* ...): every read is started
StartReads(r) ==
    /\ lpc[r] = "call"
    /\ pending' = [pending EXCEPT ![r] = 1..Len(loadFiles)]
    /\ lpc' = [lpc EXCEPT ![r] = "reading"]
    /\ UNCHANGED <<matchVars, fieldsVars, mergeVars, pc, runVars, loadFiles, unreadable,
                   content>>

\* One fsp.readFile settles: content[path.basename(f)] = txt, or the error
\* is ignored
ReadCompletes(r, i) ==
    /\ lpc[r] = "reading"
    /\ i \in pending[r]
    /\ pending' = [pending EXCEPT ![r] = @ \ {i}]
    /\ content' = IF loadFiles[i] \in unreadable THEN content
                  ELSE [content EXCEPT ![r] = SetProperty(@, basename(loadFiles[i]),
                                                          FileText(loadFiles[i]))]
    /\ UNCHANGED <<matchVars, fieldsVars, mergeVars, pc, runVars, loadFiles, unreadable, lpc>>

\* await Promise.all(...) resolves; return content
ReturnContent(r) ==
    /\ lpc[r] = "reading"
    /\ pending[r] = {}
    /\ lpc' = [lpc EXCEPT ![r] = "returned"]
    /\ UNCHANGED <<matchVars, fieldsVars, mergeVars, pc, runVars, loadFiles, unreadable,
                   pending, content>>

NextLoad ==
    \/ \E r \in Runs : StartReads(r)
    \/ \E r \in Runs : \E i \in 1..Len(loadFiles) : ReadCompletes(r, i)
    \/ \E r \in Runs : ReturnContent(r)

SpecLoad == InitLoad /\ [][NextLoad]_vars

(***************************************************************************)
(* src/run.ts (src/unnamed/part_000) and src/cli.ts (src/unnamed/part_006).*)
(* SpecRun: main calls run and exits.  A corpus is loaded in one step      *)
(* here; SpecLoad has the reads of one load.                               *)
(***************************************************************************)
\* A CSV text as csv-parse reads it with columns: true: it throws, or
\* gives one record for each line after the header.
EmptyCsv == [exists |-> TRUE, parses |-> TRUE, records |-> <<>>]

S_2025 == <<"2","0","2","5">>

FieldsCsv ==
    [exists |-> TRUE, parses |-> TRUE,
     records |-> << [DeveloperName |-> <<"A","b">>, LastModifiedDate |-> S_2025],
                    [DeveloperName |-> <<" ">>, LastModifiedDate |-> S_2025] >>]

GarbledCsv == [exists |-> TRUE, parses |-> FALSE, records |-> <<>>]

S___c == <<"_","_","c">>

\* for (const row of records) { ... } of buildLastModifiedMap
\* The loop of buildLastModifiedMap without its second assignment,
\* map[`${devName}__c`.toLowerCase()] = lastMod
RECURSIVE lastModifiedEntriesNoAlias(_, _)
lastModifiedEntriesNoAlias(records, map) ==
    IF records = <<>> THEN map
    ELSE LET devName == trim(Head(records).DeveloperName)
             lastMod == trim(Head(records).LastModifiedDate)
         IN  IF devName = <<>> THEN lastModifiedEntriesNoAlias(Tail(records), map)
             ELSE lastModifiedEntriesNoAlias(
                      Tail(records), (toLowerCase(devName) :> lastMod) @@ map)

RECURSIVE lastModifiedEntries(_, _)
lastModifiedEntries(records, map) ==
    IF records = <<>> THEN map
    ELSE LET devName == trim(Head(records).DeveloperName)
             lastMod == trim(Head(records).LastModifiedDate)
         IN  IF devName = <<>> THEN lastModifiedEntries(Tail(records), map)
             ELSE lastModifiedEntries(
                      Tail(records),
                      (toLowerCase(devName \o S___c) :> lastMod)
                      @@ (toLowerCase(devName) :> lastMod) @@ map)

\* buildLastModifiedMap(tempCsv, verbose) for a CSV that parses
buildLastModifiedMap(csv) ==
    IF ~csv.exists THEN <<>> ELSE lastModifiedEntries(csv.records, <<>>)

\* The thirteen preloadTextContent calls of run, in their order.
CorpusOrder ==
    <<"apex", "flow", "vr", "dup", "layout", "recordType", "flexipage", "report",
      "email", "lwc", "aura", "profiles", "permsets">>

\* What each load finds in the repository.
Repository == Corpora(<<"A","b"," ","b">>, <<"a","a","b">>, TRUE)

\* The rows of a FieldDefinition query that succeeds.
RunInventories ==
    { <<>>,
      << [QualifiedApiName |-> <<"a","b">>, DataType |-> S_string],
         [QualifiedApiName |-> <<"b">>, DataType |-> S_string] >> }

S_CliFailed == "Salesforce CLI failed."

InitRun ==
    /\ MatchIdle
    /\ LoadIdle
    /\ dirExists \in BOOLEAN
    /\ maps = <<>>
    /\ fieldFiles = <<>>
    /\ idx = 0
    /\ results = <<>>
    /\ error = "none"
    /\ filesRead = 0
    /\ fieldsMatched = 0
    /\ dirChecks = 0
    /\ globCalls = 0
    /\ fieldDefs = <<>>
    /\ mergeInput = <<>>
    /\ merged = <<>>
    /\ pc = "idle"
    /\ args \in [dryRun : BOOLEAN, includeStandard : BOOLEAN, csv : BOOLEAN,
                 noOpen : BOOLEAN]
    /\ tempCsv \in {NoCsv, FieldsCsv, GarbledCsv}
    /\ queryOutcome = "none"
    /\ fetchOutcome = "none"
    /\ loaded = 0
    /\ rows = <<>>
    /\ runError = "none"
    /\ printed = "none"
    /\ warned = FALSE
    /\ excel = NoWorkbook
    /\ csvWritten = FALSE
    /\ opened = FALSE
    /\ exitCode = -1
    /\ cliCalls = 0
    /\ rpc = "query"

\* await execSfQueryToCsv(...): nothing is run under dryRun; otherwise the
\* CLI fails and execSfStdout rejects, or its output is written to tempCsv
ExecSfQueryToCsv ==
    /\ rpc = "query"
    /\ IF args.dryRun
       THEN /\ queryOutcome' = "skipped"
            /\ rpc' = "lastModified"
            /\ UNCHANGED <<tempCsv, cliCalls, runError>>
       ELSE /\ cliCalls' = cliCalls + 1
            /\ \/ /\ queryOutcome' = "failed"
                  /\ runError' = S_CliFailed
                  /\ rpc' = "rejected"
                  /\ UNCHANGED tempCsv
               \/ /\ \E stdout \in {EmptyCsv, FieldsCsv, GarbledCsv} : tempCsv' = stdout
                  /\ queryOutcome' = IF ~tempCsv'.parses THEN "garbled"
                                      ELSE IF tempCsv'.records = <<>> THEN "empty"
                                      ELSE "rows"
                  /\ rpc' = "lastModified"
                  /\ UNCHANGED runError
    /\ UNCHANGED <<matchVars, loadVars, fieldsVars, mergeVars, pc, args, fetchOutcome,
                   loaded, rows, printed, warned, excel, csvWritten, opened, exitCode>>

\* const lastModifiedMap = buildLastModifiedMap(tempCsv, verbose)
BuildLastModifiedMap ==
    /\ rpc = "lastModified"
    /\ IF tempCsv.exists /\ ~tempCsv.parses
       THEN /\ runError' = "csv parse error"
            /\ rpc' = "rejected"
            /\ UNCHANGED maps
       ELSE /\ maps' = [lastModified |-> buildLastModifiedMap(tempCsv)]
            /\ rpc' = "preload"
            /\ UNCHANGED runError
    /\ UNCHANGED <<matchVars, loadVars, dirExists, fieldFiles, idx, results, error,
                   filesRead, fieldsMatched, dirChecks, globCalls, mergeVars, pc, args,
                   tempCsv, queryOutcome, fetchOutcome, loaded, rows, printed, warned,
                   excel, csvWritten, opened, exitCode, cliCalls>>

\* const <corpus>Content = await preloadTextContent([...], verbose)
PreloadCorpus ==
    /\ rpc = "preload"
    /\ loaded < Len(CorpusOrder)
    /\ loaded' = loaded + 1
    /\ maps' = (CorpusOrder[loaded + 1] :> Repository[CorpusOrder[loaded + 1]]) @@ maps
    /\ UNCHANGED <<matchVars, loadVars, dirExists, fieldFiles, idx, results, error,
                   filesRead, fieldsMatched, dirChecks, globCalls, mergeVars, pc, args,
                   tempCsv, queryOutcome, fetchOutcome, rows, runError, printed, warned,
                   excel, csvWritten, opened, exitCode, cliCalls, rpc>>

\* processFields called while the last preloadTextContent is still pending
\* (a load that is not awaited)
CallProcessFieldsEarly ==
    /\ rpc = "preload"
    /\ loaded >= Len(CorpusOrder) - 1
    /\ pc = "idle"
    /\ pc' = "start"
    /\ rpc' = "processFields"
    /\ UNCHANGED <<matchVars, loadVars, fieldsVars, mergeVars, args, tempCsv, queryOutcome,
                   fetchOutcome, loaded, rows, runError, printed, warned, excel,
                   csvWritten, opened, exitCode, cliCalls>>

\* let results = await processFields(objectFieldsPath, {...}, verbose): the
\* call
CallProcessFields ==
    /\ rpc = "preload"
    /\ loaded = Len(CorpusOrder)
    /\ pc = "idle"
    /\ pc' = "start"
    /\ rpc' = "processFields"
    /\ UNCHANGED <<matchVars, loadVars, fieldsVars, mergeVars, args, tempCsv, queryOutcome,
                   fetchOutcome, loaded, rows, runError, printed, warned, excel,
                   csvWritten, opened, exitCode, cliCalls>>

\* processFields returned: results is assigned
ProcessFieldsReturned ==
    /\ rpc = "processFields"
    /\ pc = "returned"
    /\ rows' = results
    /\ rpc' = IF args.includeStandard THEN "standard" ELSE "export"
    /\ UNCHANGED <<matchVars, loadVars, fieldsVars, mergeVars, pc, args, tempCsv,
                   queryOutcome, fetchOutcome, loaded, runError, printed, warned, excel,
                   csvWritten, opened, exitCode, cliCalls>>

\* processFields threw: run rejects with its error
ProcessFieldsThrew ==
    /\ rpc = "processFields"
    /\ pc = "threw"
    /\ runError' = error
    /\ rpc' = "rejected"
    /\ UNCHANGED <<matchVars, loadVars, fieldsVars, mergeVars, pc, args, tempCsv,
                   queryOutcome, fetchOutcome, loaded, rows, printed, warned, excel,
                   csvWritten, opened, exitCode, cliCalls>>

\* The includeStandard block without its try/catch: a failure of the query
\* rejects run
FetchFieldDefinitionsUncaught ==
    /\ rpc = "standard"
    /\ cliCalls' = cliCalls + 1
    /\ \/ /\ fetchOutcome' \in {"failed", "unparsable"}
          /\ runError' = S_CliFailed
          /\ rpc' = "rejected"
          /\ UNCHANGED warned
          /\ UNCHANGED <<results, mergeVars, rows>>
       \/ /\ fetchOutcome' = "ok"
          /\ fieldDefs' \in RunInventories
          /\ mergeInput' = rows
          /\ merged' = mergeStandardFields(rows, fieldDefs', maps)
          /\ results' = existingRowsAfterMerge(rows, fieldDefs', maps)
          /\ rows' = merged'
          /\ rpc' = "export"
          /\ UNCHANGED <<warned, runError>>
    /\ UNCHANGED <<matchVars, loadVars, dirExists, maps, fieldFiles, idx, error, filesRead,
                   fieldsMatched, dirChecks, globCalls, pc, args, tempCsv, queryOutcome,
                   loaded, printed, excel, csvWritten, opened, exitCode>>

\* if (includeStandard) { try { defs = ...; results = mergeStandardFields(
\* results, defs, {...}) } catch (err) { console.warn(...) } }: the CLI
\* fails or its output does not parse, and the catch warns; or the
\* inventory is merged
FetchFieldDefinitions ==
    /\ rpc = "standard"
    /\ cliCalls' = cliCalls + 1
    /\ \/ /\ fetchOutcome' \in {"failed", "unparsable"}
          /\ warned' = TRUE
          /\ rpc' = "export"
          /\ UNCHANGED runError
          /\ UNCHANGED <<results, mergeVars, rows>>
       \/ /\ fetchOutcome' = "ok"
          /\ fieldDefs' \in RunInventories
          /\ mergeInput' = rows
          /\ merged' = mergeStandardFields(rows, fieldDefs', maps)
          /\ results' = existingRowsAfterMerge(rows, fieldDefs', maps)
          /\ rows' = merged'
          /\ rpc' = "export"
          /\ UNCHANGED <<warned, runError>>
    /\ UNCHANGED <<matchVars, loadVars, dirExists, maps, fieldFiles, idx, error, filesRead,
                   fieldsMatched, dirChecks, globCalls, pc, args, tempCsv, queryOutcome,
                   loaded, printed, excel, csvWritten, opened, exitCode>>

\* await exportToExcel(results, objectName, outputExcel, verbose)
ExportToExcel ==
    /\ rpc = "export"
    /\ excel' = [written |-> TRUE, rows |-> rows]
    /\ rpc' = IF args.csv THEN "exportCsv" ELSE "open"
    /\ UNCHANGED <<matchVars, loadVars, fieldsVars, mergeVars, pc, args, tempCsv,
                   queryOutcome, fetchOutcome, loaded, rows, runError, printed, warned,
                   csvWritten, opened, exitCode, cliCalls>>

\* if (exportCsvFlag) await exportToCsv(results, outputCsv, verbose)
ExportToCsv ==
    /\ rpc = "exportCsv"
    /\ csvWritten' = TRUE
    /\ rpc' = "open"
    /\ UNCHANGED <<matchVars, loadVars, fieldsVars, mergeVars, pc, args, tempCsv,
                   queryOutcome, fetchOutcome, loaded, rows, runError, printed, warned,
                   excel, opened, exitCode, cliCalls>>

\* if (!noOpen) openFile(outputExcel, verbose); run resolves
OpenFile ==
    /\ rpc = "open"
    /\ opened' = ~args.noOpen
    /\ rpc' = "resolved"
    /\ UNCHANGED <<matchVars, loadVars, fieldsVars, mergeVars, pc, args, tempCsv,
                   queryOutcome, fetchOutcome, loaded, rows, runError, printed, warned,
                   excel, csvWritten, exitCode, cliCalls>>

\* main, after await run(...): process.exit(0)
MainExit ==
    /\ rpc = "resolved"
    /\ exitCode' = 0
    /\ rpc' = "exited"
    /\ UNCHANGED <<matchVars, loadVars, fieldsVars, mergeVars, pc, args, tempCsv,
                   queryOutcome, fetchOutcome, loaded, rows, runError, printed, warned,
                   excel, csvWritten, opened, cliCalls>>

\* The catch of main with process.exit(0)
MainCatchExitsZero ==
    /\ rpc = "rejected"
    /\ printed' = runError
    /\ exitCode' = 0
    /\ rpc' = "exited"
    /\ UNCHANGED <<matchVars, loadVars, fieldsVars, mergeVars, pc, args, tempCsv,
                   queryOutcome, fetchOutcome, loaded, rows, runError, warned, excel,
                   csvWritten, opened, cliCalls>>

\* main: catch (err) { console.error("Error:", err?.message ?? err);
\* process.exit(1) }
MainCatch ==
    /\ rpc = "rejected"
    /\ printed' = runError
    /\ exitCode' = 1
    /\ rpc' = "exited"
    /\ UNCHANGED <<matchVars, loadVars, fieldsVars, mergeVars, pc, args, tempCsv,
                   queryOutcome, fetchOutcome, loaded, rows, runError, warned, excel,
                   csvWritten, opened, cliCalls>>

NextRun ==
    \/ ExecSfQueryToCsv
    \/ BuildLastModifiedMap
    \/ PreloadCorpus
    \/ CallProcessFields
    \/ CheckFieldsFolder
    \/ DiscoverFieldFiles
    \/ ProcessFieldFile
    \/ ReturnResults
    \/ ProcessFieldsReturned
    \/ ProcessFieldsThrew
    \/ FetchFieldDefinitions
    \/ ExportToExcel
    \/ ExportToCsv
    \/ OpenFile
    \/ MainExit
    \/ MainCatch

\* Every step of main and run is taken by the event loop once it can be.
SpecRun == InitRun /\ [][NextRun]_vars /\ WF_vars(NextRun)

(***************************************************************************)
(* SpecStamp: run from buildLastModifiedMap to the return of processFields,*)
(* over cached CSVs of up to MaxRecords records and one field document.    *)
(***************************************************************************)
MaxRecords == 2

S_2024 == <<"2","0","2","4">>

\* The records of the query: a developer name as the org gives it, one
\* that already carries the suffix, one with a trailing blank and a blank
\* one, each with either timestamp.
StampRecords ==
    { [DeveloperName |-> d, LastModifiedDate |-> t] :
        d \in { <<"A","b">>, <<"a","b","_","_","c">>, <<"b"," ">>, <<" ">> },
        t \in { S_2025, S_2024 } }

StampCsvs ==
    { [exists |-> TRUE, parses |-> TRUE, records |-> r] :
        r \in SeqsUpTo(StampRecords, MaxRecords) }

\* The fullName of the local field documents.
StampNames ==
    { <<"A","b">>, <<"a","B","_","_","C">>, <<"b">>,
      <<"a","b","_","_","c","_","_","c">> }

StampDocuments ==
    { [TextField EXCEPT !.xml.CustomField.fullName = <<n>>] : n \in StampNames }
    \cup {Nameless}

InitStamp ==
    /\ MatchIdle
    /\ LoadIdle
    /\ dirExists = TRUE
    /\ maps = <<>>
    /\ fieldFiles = <<>>
    /\ idx = 0
    /\ results = <<>>
    /\ error = "none"
    /\ filesRead = 0
    /\ fieldsMatched = 0
    /\ dirChecks = 0
    /\ globCalls = 0
    /\ fieldDefs = <<>>
    /\ mergeInput = <<>>
    /\ merged = <<>>
    /\ pc = "idle"
    /\ args = [dryRun |-> TRUE, includeStandard |-> FALSE, csv |-> FALSE, noOpen |-> TRUE]
    /\ tempCsv \in StampCsvs
    /\ queryOutcome = "skipped"
    /\ fetchOutcome = "none"
    /\ loaded = 0
    /\ rows = <<>>
    /\ runError = "none"
    /\ printed = "none"
    /\ warned = FALSE
    /\ excel = NoWorkbook
    /\ csvWritten = FALSE
    /\ opened = FALSE
    /\ exitCode = -1
    /\ cliCalls = 0
    /\ rpc = "lastModified"

\* const fieldFiles = await fg(...), for a folder with one field document
DiscoverStampDocument ==
    /\ pc = "glob"
    /\ globCalls' = globCalls + 1
    /\ \E doc \in StampDocuments : fieldFiles' = <<doc>>
    /\ pc' = "loop"
    /\ idx' = 1
    /\ UNCHANGED <<matchVars, loadVars, runVars, dirExists, maps, results, error, filesRead,
                   fieldsMatched, dirChecks, mergeVars>>

NextStamp ==
    \/ BuildLastModifiedMap
    \/ PreloadCorpus
    \/ CallProcessFields
    \/ CheckFieldsFolder
    \/ DiscoverStampDocument
    \/ ProcessFieldFile
    \/ ReturnResults
    \/ ProcessFieldsReturned

SpecStamp == InitStamp /\ [][NextStamp]_vars

(***************************************************************************)
(* Claims about containsField.                                             *)
(***************************************************************************)
\* An occurrence of name in txt, compared ignoring case when fold is TRUE,
\* at position i.
OccursAt(txt, name, i, fold) ==
    /\ i + Len(name) - 1 <= Len(txt)
    /\ \A j \in 1..Len(name) :
           IF fold THEN ToLowerChar(txt[i + j - 1]) = ToLowerChar(name[j])
           ELSE txt[i + j - 1] = name[j]

\* A case-insensitive occurrence of name in txt bounded on both sides by a
\* non-identifier character or by the start or end of txt.
WholeWordOccurrence(txt, name) ==
    \E i \in 1..Len(txt) :
        /\ OccursAt(txt, name, i, TRUE)
        /\ (i = 1 \/ ~IsWordChar(txt[i - 1]))
        /\ (i + Len(name) > Len(txt) \/ ~IsWordChar(txt[i + Len(name)]))

HasSyntaxCharacter(name) == \E i \in 1..Len(name) : name[i] \in SyntaxCharacters

DefaultCallReturned ==
    mpc = "returned" /\ opts = DefaultOpts /\ text # <<>> /\ fieldName # <<>>

\* C1, as stated: for every non-empty text and non-empty identifier,
\* containsField with default options returns true exactly when the text
\* holds a case-insensitive occurrence of the identifier bounded on both
\* sides by a non-identifier character or by the start/end of the text.
C1_AsStated ==
    DefaultCallReturned =>
        /\ ~outcome.threw
        /\ outcome.value = WholeWordOccurrence(text, fieldName)

\* C1, amended: the same equivalence for every non-empty identifier whose
\* first and last characters are identifier characters (A-Z, a-z, 0-9,
\* underscore); an occurrence inside a longer identifier yields false.
C1_WholeWord ==
    (/\ DefaultCallReturned
     /\ IsWordChar(fieldName[1])
     /\ IsWordChar(fieldName[Len(fieldName)])) =>
        /\ ~outcome.threw
        /\ outcome.value = WholeWordOccurrence(text, fieldName)

\* C1 witness: a default-options call that returned true for an identifier
\* found only in another letter case, with text around it.
C1_Witness ==
    /\ DefaultCallReturned
    /\ IsWordChar(fieldName[1])
    /\ IsWordChar(fieldName[Len(fieldName)])
    /\ outcome.value
    /\ Len(text) > Len(fieldName)
    /\ ~includes(text, fieldName)

\* C2: an identifier holding regex syntax characters never makes the call
\* throw, and the call never returns true for a text that does not hold the
\* identifier's characters literally (compared as the options say).
C2_Literal ==
    (mpc = "returned" /\ HasSyntaxCharacter(fieldName)) =>
        /\ ~outcome.threw
        /\ outcome.value =>
               \E i \in 1..Len(text) : OccursAt(text, fieldName, i, opts.ignoreCase)

\* C2 witness: a whole-word call with a syntax character in the identifier
\* that returned true.
C2_Witness ==
    /\ mpc = "returned"
    /\ opts.wholeWord
    /\ HasSyntaxCharacter(fieldName)
    /\ outcome.value

(***************************************************************************)
(* Claims about processFields and mergeStandardFields.                     *)
(***************************************************************************)
\* The pieces of a joined list: the inverse of Join for items that do not
\* hold the separator.
RECURSIVE SplitPieces(_, _)
SplitPieces(s, sep) ==
    LET cuts == {i \in 1..Len(s) : i + Len(sep) - 1 <= Len(s)
                                   /\ SubSeq(s, i, i + Len(sep) - 1) = sep}
    IN  IF cuts = {} THEN <<s>>
        ELSE LET i == CHOOSE c \in cuts : \A d \in cuts : c <= d
             IN  <<SubSeq(s, 1, i - 1)>> \o SplitPieces(SubSeq(s, i + Len(sep), Len(s)), sep)

Split(s, sep) == IF s = <<>> THEN <<>> ELSE SplitPieces(s, sep)

Count(list, x) == Cardinality({i \in 1..Len(list) : list[i] = x})

SameName(a, b) == toLowerCase(a) = toLowerCase(b)

Merged == pc \in {"merged", "mergedAgain"}

\* The rows a merge appended to the rows processFields returned.
RemoteRows == IF Merged THEN SubSeq(merged, Len(results) + 1, Len(merged)) ELSE <<>>

IsLocalName(n) == \E i \in 1..Len(results) : SameName(results[i].FieldName, n)

\* C3: a remote pair whose apiName equals, ignoring case, the FieldName of
\* a local row adds no row, and every local row is in the merged result
\* with all of its columns unchanged: the row reported for that name is the
\* local one.
C3_LocalPrecedence ==
    Merged =>
        /\ \A i \in 1..Len(results) : \E j \in 1..Len(merged) : merged[j] = results[i]
        /\ \A d \in 1..Len(fieldDefs) :
              IsLocalName(fieldDefs[d].QualifiedApiName) =>
                 /\ \A j \in 1..Len(RemoteRows) :
                       ~SameName(RemoteRows[j].FieldName, fieldDefs[d].QualifiedApiName)
                 /\ \A j \in 1..Len(merged) :
                       SameName(merged[j].FieldName, fieldDefs[d].QualifiedApiName) =>
                          \E i \in 1..Len(results) : results[i] = merged[j]

\* C3 witness: a merge was given a pair that names a local field in another
\* letter case, together with a pair that did add a row.
C3_Witness ==
    /\ pc = "merged"
    /\ Len(RemoteRows) > 0
    /\ \E d \in 1..Len(fieldDefs), i \in 1..Len(results) :
          /\ SameName(results[i].FieldName, fieldDefs[d].QualifiedApiName)
          /\ results[i].FieldName # fieldDefs[d].QualifiedApiName

\* C4, as stated: in the row set mergeStandardFields returns no two rows
\* have FieldName values that are equal ignoring case.
C4_UniqueNames ==
    Merged =>
        \A i \in 1..Len(merged), j \in 1..Len(merged) :
            i # j => ~SameName(merged[i].FieldName, merged[j].FieldName)

\* C5: merging the same inventory into the result of a merge returns that
\* result: the second merge adds no row.
C5_Idempotent ==
    pc = "mergedAgain" => merged = mergeInput

\* C5 witness: a second merge after a first one that added rows.
C5_Witness ==
    /\ pc = "mergedAgain"
    /\ Len(mergeInput) > Len(results)

\* A field document that holds nothing but the name n.
DocumentNamed(n) == [CustomField |-> [fullName |-> <<n>>]]

\* C6, as stated: the Layouts, Flexipages, RecordTypes, References and
\* ProfilesAndPermSets of a row merged for a remote field equal what
\* processFields computes for a local field of the same name over the same
\* corpora.
C6_SameUsage ==
    \A j \in 1..Len(RemoteRows) :
        LET remote == RemoteRows[j]
            local  == processFieldsRow(DocumentNamed(remote.FieldName), maps)
        IN  /\ remote.Layouts = local.Layouts
            /\ remote.Flexipages = local.Flexipages
            /\ remote.RecordTypes = local.RecordTypes
            /\ remote.References = local.References
            /\ remote.ProfilesAndPermSets = local.ProfilesAndPermSets

\* Each artifact of contentMap is in list once, under its label, when
\* containsField finds name in its text, and is not in it otherwise.
ListedExactly(list, contentMap, label, name) ==
    \A e \in 1..Len(contentMap) :
        Count(list, label \o contentMap[e].name) =
            IF containsField(contentMap[e].text, name) THEN 1 ELSE 0

Hits(contentMap, name) ==
    Cardinality({e \in 1..Len(contentMap) : containsField(contentMap[e].text, name)})

OptionalCorpus(key) == IF key \in DOMAIN maps THEN maps[key] ELSE <<>>

\* The usage and reference lists of row list every artifact of every corpus
\* that was scanned for it exactly as containsField decides, and nothing else.
ScannedExhaustively(row, withAccess) ==
    LET name == row.FieldName
        layouts == Split(row.Layouts, <<";", " ">>)
        flexipages == Split(row.Flexipages, <<";", " ">>)
        recordTypes == Split(row.RecordTypes, <<";", " ">>)
        refs == Split(row.References, <<";", "\n">>)
        access == IF withAccess
                  THEN Hits(OptionalCorpus("profiles"), name)
                       + Hits(OptionalCorpus("permsets"), name)
                  ELSE 0
    IN  /\ ListedExactly(layouts, maps.layout, <<>>, name)
        /\ Len(layouts) = Hits(maps.layout, name)
        /\ ListedExactly(flexipages, maps.flexipage, <<>>, name)
        /\ Len(flexipages) = Hits(maps.flexipage, name)
        /\ ListedExactly(recordTypes, maps.recordType, <<>>, name)
        /\ Len(recordTypes) = Hits(maps.recordType, name)
        /\ ListedExactly(refs, maps.apex, Label_Apex, name)
        /\ ListedExactly(refs, maps.flow, Label_Flow, name)
        /\ ListedExactly(refs, maps.vr, Label_ValidationRule, name)
        /\ ListedExactly(refs, maps.dup, Label_DuplicateRule, name)
        /\ ListedExactly(refs, maps.report, Label_Report, name)
        /\ ListedExactly(refs, maps.email, Label_EmailTemplate, name)
        /\ ListedExactly(refs, OptionalCorpus("lwc"), Label_LWC, name)
        /\ ListedExactly(refs, OptionalCorpus("aura"), Label_Aura, name)
        /\ withAccess => ListedExactly(refs, OptionalCorpus("profiles"), Label_Profile, name)
        /\ withAccess => ListedExactly(refs, OptionalCorpus("permsets"), Label_PermSet, name)
        /\ Len(refs) = Hits(maps.apex, name) + Hits(maps.flow, name) + Hits(maps.vr, name)
                       + Hits(maps.dup, name) + Hits(maps.report, name)
                       + Hits(maps.email, name) + Hits(OptionalCorpus("lwc"), name)
                       + Hits(OptionalCorpus("aura"), name) + access

\* C7: every corpus given to searchUsage or collectReferences is scanned to
\* its end: each artifact is listed exactly once when containsField finds
\* the identifier in its text and not at all otherwise, and a field that
\* occurs nowhere has empty lists.
\* Stated of each row in the state that follows its push: of the last
\* local row while the loop of processFields runs, and of the appended rows
\* when mergeStandardFields has returned.
C7_Exhaustive ==
    /\ (pc = "loop" /\ results # <<>>) =>
          ScannedExhaustively(results[Len(results)], FALSE)
    /\ pc = "merged" =>
          \A j \in 1..Len(RemoteRows) : ScannedExhaustively(RemoteRows[j], TRUE)

\* C7 witness: a row whose Layouts lists two artifacts and another row whose
\* Layouts is empty.
C7_Witness ==
    /\ \E i \in 1..Len(results) :
          Len(Split(results[i].Layouts, <<";", " ">>)) = 2
    /\ \E j \in 1..Len(RemoteRows) :
          RemoteRows[j].Layouts = <<>> /\ RemoteRows[j].References = <<>>

\* The ProfilesAndPermSets of row lists "Profile: k" / "PermSet: k" exactly
\* for the artifacts k in which containsField finds the row's identifier.
AccessListedByMatcher(row) ==
    LET access == Split(row.ProfilesAndPermSets, <<";", "\n">>)
    IN  /\ \A e \in 1..Len(OptionalCorpus("profiles")) :
              (Count(access, Label_Profile \o OptionalCorpus("profiles")[e].name) > 0)
                 = containsField(OptionalCorpus("profiles")[e].text, row.FieldName)
        /\ \A e \in 1..Len(OptionalCorpus("permsets")) :
              (Count(access, Label_PermSet \o OptionalCorpus("permsets")[e].name) > 0)
                 = containsField(OptionalCorpus("permsets")[e].text, row.FieldName)

\* C8, as stated: the access-control list of every row is decided by
\* containsField with default options, like every other cross-reference.
C8_AccessMatcher ==
    /\ \A i \in 1..Len(results) : AccessListedByMatcher(results[i])
    /\ \A j \in 1..Len(RemoteRows) : AccessListedByMatcher(RemoteRows[j])

\* The rows of the documents of files that have a root element, in order.
RECURSIVE RowsOfWellFormed(_)
RowsOfWellFormed(files) ==
    IF files = <<>> THEN <<>>
    ELSE (IF Head(files).wellFormed /\ "CustomField" \in DOMAIN Head(files).xml
          THEN <<processFieldsRow(Head(files).xml, maps)>> ELSE <<>>)
         \o RowsOfWellFormed(Tail(files))

ProcessFieldsEnded == pc \in {"threw", "returned", "merged", "mergedAgain"}

\* C9, as stated: when processFields has ended on a batch that holds a
\* well-formed document with a root element, it has not thrown: it has
\* returned a row for every such document and no row for any other one.
C9_ParseFailureSkipped ==
    (/\ ProcessFieldsEnded
     /\ \E i \in 1..Len(fieldFiles) :
           fieldFiles[i].wellFormed /\ "CustomField" \in DOMAIN fieldFiles[i].xml) =>
        /\ pc # "threw"
        /\ results = RowsOfWellFormed(fieldFiles)

\* C10: without the fields folder processFields throws 'fields folder not
\* found' before it globs, reads a document or matches a corpus; with the
\* folder and no field document it throws 'no field metadata files found';
\* in both cases it has no rows and has made each call once.
C10_ConfigurationErrors ==
    /\ (pc # "start" /\ ~dirExists) =>
          /\ pc = "threw" /\ error = "Fields folder not found"
          /\ dirChecks = 1 /\ globCalls = 0
          /\ filesRead = 0 /\ fieldsMatched = 0 /\ results = <<>>
    /\ (dirExists /\ globCalls > 0 /\ fieldFiles = <<>>) =>
          /\ pc = "threw" /\ error = "No field metadata files found"
          /\ dirChecks = 1 /\ globCalls = 1
          /\ filesRead = 0 /\ fieldsMatched = 0 /\ results = <<>>
    /\ error = "Fields folder not found" => ~dirExists
    /\ error = "No field metadata files found" => (dirExists /\ fieldFiles = <<>>)

\* C10 witness: the folder exists, the glob found nothing and processFields
\* threw.
C10_Witness ==
    /\ pc = "threw"
    /\ dirExists
    /\ globCalls = 1
    /\ error = "No field metadata files found"

(***************************************************************************)
(* Claims about the order of the rows.                                     *)
(***************************************************************************)
\* The pairs of the inventory that the merge is to turn into rows: those
\* with a name that no local row carries, in the order of the inventory.
PairsToAppend ==
    LET Kept(def) == /\ def.QualifiedApiName # <<>>
                     /\ ~\E i \in 1..Len(mergeInput) :
                            SameName(mergeInput[i].FieldName, def.QualifiedApiName)
    IN  SelectSeq(fieldDefs, Kept)

\* C15: processFields returns one row for each document it did not skip,
\* in the order the documents were enumerated; mergeStandardFields returns
\* the local rows as an unchanged prefix, in their order, followed by one
\* row for each remote pair that is not a duplicate, in the order of the
\* inventory, and the array of local rows it was given holds afterwards
\* what it held before.
C15_SourceOrder ==
    /\ pc = "returned" => results = RowsOfWellFormed(fieldFiles)
    /\ pc = "merged" =>
        /\ results = mergeInput
        /\ Len(merged) = Len(mergeInput) + Len(PairsToAppend)
        /\ SubSeq(merged, 1, Len(mergeInput)) = mergeInput
        /\ \A k \in 1..Len(PairsToAppend) :
              merged[Len(mergeInput) + k].FieldName = PairsToAppend[k].QualifiedApiName

\* A document was skipped, a local row was returned, and the merge appended
\* two rows of different names after it.
C15_Witness ==
    /\ pc = "merged"
    /\ Len(fieldFiles) > Len(mergeInput)
    /\ Len(mergeInput) >= 1
    /\ Len(merged) = Len(mergeInput) + 2
    /\ merged[Len(merged)].FieldName # merged[Len(merged) - 1].FieldName

(***************************************************************************)
(* Claims about the columns processFields reads from a document.           *)
(***************************************************************************)
\* processFields has pushed the row of the one document of the folder.
Parsed == pc \in {"loop", "returned"} /\ Len(fieldFiles) = 1 /\ Len(results) = 1

ParsedField == fieldFiles[1].xml.CustomField

\* The text of an element of the parsed document, Absent when it has none.
Attribute(key) == IF key \in DOMAIN ParsedField THEN ParsedField[key][1] ELSE Absent

\* The precision and scale of the parsed document as the claim joins them.
PrecisionAndScale ==
    LET p == Attribute("precision")
        sc == Attribute("scale")
    IN  IF p # Absent /\ sc # Absent THEN p \o <<",", " ">> \o sc
        ELSE IF p # Absent THEN p
        ELSE IF sc # Absent THEN sc
        ELSE <<>>

\* FieldLength as the claim gives it for a data type t.
LengthFor(t) ==
    IF t \in {S_Text, S_Html, S_LongTextArea}
    THEN (IF Attribute("length") = Absent THEN <<>> ELSE Attribute("length"))
    ELSE IF t \in {S_Number, S_Currency} THEN PrecisionAndScale
    ELSE <<>>

\* C16, as stated: FieldLength is the length for the types Text, Html and
\* LongTextArea, precision and scale for Number and Currency, and empty for
\* every other content of the type element.
C16_AsStated ==
    Parsed => results[1].FieldLength =
                 LengthFor(IF Attribute("type") = Absent THEN <<>> ELSE Attribute("type"))

\* C16: FieldLength is empty unless the data type, with the white space
\* around it removed, is Text, Html, LongTextArea, Number or Currency; for
\* the first three it is the length (empty if absent), for the last two
\* precision and scale joined by ", " when both are present, the one that
\* is present alone, and empty when neither is; for every other type it is
\* empty whatever length, precision or scale the document carries.
C16_FieldLength ==
    Parsed => results[1].FieldLength =
                 LengthFor(IF Attribute("type") = Absent THEN <<>>
                           ELSE trim(Attribute("type")))

\* A Number field with a scale and no precision, whose FieldLength is the
\* scale alone.
C16_Witness ==
    /\ Parsed
    /\ Attribute("type") = S_Number
    /\ Attribute("precision") = Absent
    /\ Attribute("scale") # Absent
    /\ Attribute("length") # Absent
    /\ results[1].FieldLength = Attribute("scale")

\* C17: in every row, local or remote, LookupRef is non-empty only when
\* the data type of the row is "Lookup"; for every other type it is empty,
\* also when the document carries a referenceTo element.
C17_LookupOnly ==
    /\ \A i \in 1..Len(results) :
          results[i].LookupRef # <<>> => results[i].FieldType = S_Lookup
    /\ Merged => \A j \in 1..Len(merged) :
          merged[j].LookupRef # <<>> => merged[j].FieldType = S_Lookup

\* A Text document with a referenceTo element and a Lookup document were
\* parsed, the Lookup row alone has a LookupRef, and a remote row was added.
C17_Witness ==
    /\ pc = "merged"
    /\ Len(RemoteRows) >= 1
    /\ \E i \in 1..Len(fieldFiles) :
          /\ fieldFiles[i] = TextField
          /\ "referenceTo" \in DOMAIN fieldFiles[i].xml.CustomField
    /\ \E i \in 1..Len(results) : results[i].FieldType = S_Text /\ results[i].LookupRef = <<>>
    /\ \E i \in 1..Len(results) : results[i].LookupRef # <<>>

\* C18: Required is "TRUE" or "FALSE"; for a local field it is "TRUE"
\* exactly when the document has a required element whose text, lower-cased,
\* is "true", and "FALSE" for every other text and when there is none.
C18_Required ==
    Parsed =>
        /\ results[1].Required \in {S_TRUE, S_FALSE}
        /\ results[1].Required = S_TRUE <=>
              /\ Attribute("required") # Absent
              /\ toLowerCase(Attribute("required")) = S_true

\* A document whose required element reads "True" gave Required "TRUE".
C18_Witness ==
    /\ Parsed
    /\ Attribute("required") = S_True
    /\ results[1].Required = S_TRUE

\* The value names the value set of the parsed document lists literally,
\* in the order of the document.
LiteralNames ==
    IF "valueSet" \notin DOMAIN ParsedField THEN <<>>
    ELSE LET vs == ParsedField.valueSet[1]
         IN  IF "valueSetDefinition" \notin DOMAIN vs THEN <<>>
             ELSE LET vals == vs.valueSetDefinition[1].value
                      named == SelectSeq(vals, LAMBDA v : "fullName" \in DOMAIN v)
                  IN  [i \in 1..Len(named) |-> named[i].fullName[1]]

\* An element of the value set of the parsed document, Absent when the
\* document has no value set or the value set has no such element.
ValueSetAttribute(key) ==
    IF "valueSet" \notin DOMAIN ParsedField THEN Absent
    ELSE IF key \notin DOMAIN ParsedField.valueSet[1] THEN Absent
    ELSE ParsedField.valueSet[1][key][1]

RECURSIVE CommaSeparated(_)
CommaSeparated(names) ==
    IF names = <<>> THEN <<>>
    ELSE IF Len(names) = 1 THEN names[1]
    ELSE names[1] \o <<",", " ">> \o CommaSeparated(Tail(names))

\* C19: PicklistValues is the literal value names joined by ", " in the
\* order of the document when there are any, whatever shared value set is
\* named; otherwise the name of the shared value set as it is; otherwise
\* empty.  ControllingField is the controlling field of the value set
\* whenever it has one, in every one of the three cases.
C19_Picklist ==
    Parsed =>
        /\ results[1].PicklistValues =
              IF LiteralNames # <<>> THEN CommaSeparated(LiteralNames)
              ELSE IF ValueSetAttribute("valueSetName") # Absent
              THEN ValueSetAttribute("valueSetName")
              ELSE <<>>
        /\ results[1].ControllingField =
              IF ValueSetAttribute("controllingField") # Absent
              THEN ValueSetAttribute("controllingField")
              ELSE <<>>

\* A value set with two literal names, the name of a shared value set and
\* a controlling field: the two names are listed in their order.
C19_Witness ==
    /\ Parsed
    /\ Len(LiteralNames) = 2
    /\ LiteralNames[1] # LiteralNames[2]
    /\ ValueSetAttribute("valueSetName") # Absent
    /\ ValueSetAttribute("controllingField") # Absent
    /\ results[1].PicklistValues = LiteralNames[1] \o <<",", " ">> \o LiteralNames[2]
    /\ results[1].ControllingField = S_Controlling

\* C20: the row synthesized for a remote pair has the apiName of the pair
\* as FieldName, its dataType as FieldType, Required "FALSE", and FieldLabel,
\* Description, Formula, FieldLength, LookupRef, PicklistValues,
\* ControllingField and LastModifiedDate empty.
C20_RemoteRow ==
    pc = "merged" =>
        /\ Len(merged) = Len(mergeInput) + Len(PairsToAppend)
        /\ \A k \in 1..Len(PairsToAppend) :
              LET row == merged[Len(mergeInput) + k]
              IN  /\ row.FieldName = PairsToAppend[k].QualifiedApiName
                  /\ row.FieldType = PairsToAppend[k].DataType
                  /\ row.Required = S_FALSE
                  /\ \A column \in {"FieldLabel", "Description", "Formula", "FieldLength",
                                    "LookupRef", "PicklistValues", "ControllingField",
                                    "LastModifiedDate"} : row[column] = <<>>

\* A row was synthesized for a remote name that the last-modified map has
\* a date for.
C20_Witness ==
    /\ pc = "merged"
    /\ Len(PairsToAppend) >= 1
    /\ toLowerCase(PairsToAppend[1].QualifiedApiName) \in DOMAIN maps.lastModified
    /\ merged[Len(mergeInput) + 1].FieldType = S_string
    /\ merged[Len(mergeInput) + 1].LastModifiedDate = <<>>

(***************************************************************************)
(* Claims about the loader.                                                *)
(***************************************************************************)
BothLoaded == \A r \in Runs : lpc[r] = "returned"

\* C14, as stated: two runs over the same files give the keys of the
\* loaded corpus in the same order, and so the same Layouts column for an
\* identifier, whatever order the reads completed in.
C14_SameOrder ==
    BothLoaded =>
        /\ Keys(content[1]) = Keys(content[2])
        /\ searchUsage(content[1], <<"b">>) = searchUsage(content[2], <<"b">>)

(***************************************************************************)
(* Claims about run and main.                                              *)
(***************************************************************************)
FetchFailed == fetchOutcome \in {"failed", "unparsable"}

\* C11: when the FieldDefinition query of a run with includeStandard fails,
\* by a failure of the CLI or by output that does not parse, the failure is
\* caught and a warning printed: the rows of the run stay exactly the rows
\* processFields returned, and the run goes on to write the workbook with
\* those rows and exits with code 0.
C11_FetchFailureCaught ==
    /\ [](FetchFailed =>
            /\ args.includeStandard
            /\ runError = "none"
            /\ warned
            /\ rows = results
            /\ excel.written => excel.rows = results
            /\ exitCode \in {-1, 0})
    /\ FetchFailed ~> (exitCode = 0 /\ excel.written /\ excel.rows = results)

\* The query failed after processFields returned a row, and the process
\* has exited with code 0.
C11_Witness ==
    /\ FetchFailed
    /\ Len(results) >= 1
    /\ rpc = "exited"
    /\ exitCode = 0
    /\ excel = [written |-> TRUE, rows |-> results]

\* The last-modified query failed or returned no record, or it was skipped
\* and there is no cached CSV.
TimestampsUnavailable ==
    \/ queryOutcome \in {"failed", "empty"}
    \/ queryOutcome = "skipped" /\ ~tempCsv.exists

\* C12, as stated: when the last-modified source is absent or fails, run
\* does not reject because of it: it goes on with an empty last-modified
\* map, every row has an empty LastModifiedDate, and a run that ends
\* without another error has written the workbook.
C12_TimestampsOptional ==
    TimestampsUnavailable =>
        /\ runError \notin {S_CliFailed, "csv parse error"}
        /\ "lastModified" \in DOMAIN maps => DOMAIN maps.lastModified = {}
        /\ \A i \in 1..Len(rows) : rows[i].LastModifiedDate = <<>>
        /\ rpc = "exited" /\ runError = "none" => excel.written /\ exitCode = 0

ConfigurationError ==
    runError \in {"Fields folder not found", "No field metadata files found"}

\* C13: a configuration error of processFields aborts the run: nothing is
\* exported, no file is opened, the message is printed and the process
\* exits with code 1; and the process exits with code 0 only after the
\* workbook, and the CSV export when asked for, were written.
C13_FatalAborts ==
    /\ [](ConfigurationError =>
            /\ ~excel.written /\ ~csvWritten /\ ~opened
            /\ exitCode \in {-1, 1}
            /\ exitCode = 1 => printed = runError)
    /\ [](exitCode = 0 => /\ runError = "none"
                          /\ excel.written
                          /\ args.csv => csvWritten)
    /\ ConfigurationError ~> (exitCode = 1)

\* The glob found no field document in a run that asks for the CSV export
\* and the opening of the workbook, and the process has exited with code 1.
C13_Witness ==
    /\ runError = "No field metadata files found"
    /\ args.csv /\ ~args.noOpen
    /\ printed = runError
    /\ exitCode = 1

(***************************************************************************)
(* Claims about the matcher guard, the loader and the shape of rows.       *)
(***************************************************************************)
\* C24: containsField returns false and raises nothing whenever the text
\* is empty or the identifier is empty, in whole-word mode and in substring
\* mode, ignoring case or not.
C24_EmptyIsFalse ==
    (mpc = "returned" /\ (text = <<>> \/ fieldName = <<>>)) =>
        /\ ~outcome.threw
        /\ ~outcome.value

\* A substring-mode call with an empty identifier on a non-empty text has
\* returned false.
C24_Witness ==
    /\ mpc = "returned"
    /\ ~opts.wholeWord
    /\ fieldName = <<>>
    /\ text # <<>>
    /\ ~outcome.threw
    /\ ~outcome.value

\* C29, as stated: when a load has returned, the corpus holds, for every
\* matched file that can be read, an entry whose text is the text of that
\* file, also when two matched files have the same base name; and a file
\* that cannot be read leaves the entries of the other files in place.
C29_EveryReadableFile ==
    \A r \in Runs :
        lpc[r] = "returned" =>
            \A i \in 1..Len(loadFiles) :
                loadFiles[i] \notin unreadable =>
                    \E k \in 1..Len(content[r]) :
                        /\ content[r][k].name = basename(loadFiles[i])
                        /\ content[r][k].text = FileText(loadFiles[i])

\* C30, as stated: every row processFields has pushed has a non-empty
\* FieldName.
C30_NamedRows ==
    \A i \in 1..Len(results) : results[i].FieldName # <<>>

\* The eight categories of the References list, in the order of the claim,
\* each with the corpus it is read from and the label of its entries.
ReferenceCategories ==
    << [corpus |-> "apex", label |-> <<"A","p","e","x",":"," ">>],
       [corpus |-> "flow", label |-> <<"F","l","o","w",":"," ">>],
       [corpus |-> "vr", label |-> <<"V","a","l","i","d","a","t","i","o","n","R","u","l","e",":"," ">>],
       [corpus |-> "dup", label |-> <<"D","u","p","l","i","c","a","t","e","R","u","l","e",":"," ">>],
       [corpus |-> "report", label |-> <<"R","e","p","o","r","t",":"," ">>],
       [corpus |-> "email", label |-> <<"E","m","a","i","l","T","e","m","p","l","a","t","e",":"," ">>],
       [corpus |-> "lwc", label |-> <<"L","W","C",":"," ">>],
       [corpus |-> "aura", label |-> <<"A","u","r","a",":"," ">>] >>

\* The identifiers of the artifacts of contentMap in which containsField
\* finds name, in the order of the corpus.
HitNames(contentMap, name) ==
    SelectSeq(Keys(contentMap), LAMBDA k : containsField(TextOf(contentMap, k), name))

\* The entries of the categories from the c-th on, for the identifier name.
RECURSIVE EntriesFrom(_, _)
EntriesFrom(c, name) ==
    IF c > Len(ReferenceCategories) THEN <<>>
    ELSE LET hits == HitNames(OptionalCorpus(ReferenceCategories[c].corpus), name)
         IN  [i \in 1..Len(hits) |-> ReferenceCategories[c].label \o hits[i]]
             \o EntriesFrom(c + 1, name)

\* The References of row are the entries of the eight categories, category
\* by category in the fixed order, and its three usage lists are the bare
\* identifiers of the hits in corpus order.
OrderedAsClaimed(row) ==
    /\ Split(row.References, <<";", "\n">>) = EntriesFrom(1, row.FieldName)
    /\ Split(row.Layouts, <<";", " ">>) = HitNames(maps.layout, row.FieldName)
    /\ Split(row.RecordTypes, <<";", " ">>) = HitNames(maps.recordType, row.FieldName)
    /\ Split(row.Flexipages, <<";", " ">>) = HitNames(maps.flexipage, row.FieldName)

\* C23, as stated: the References of every row, local or remote, list the
\* hits as "<Category>: <artifact>" with the categories Apex, Flow,
\* ValidationRule, DuplicateRule, Report, EmailTemplate, LWC, Aura in that
\* order, each category contiguous and in corpus order; Layouts,
\* RecordTypes and Flexipages list bare identifiers in corpus order.
C23_Ordered ==
    /\ (pc = "loop" /\ results # <<>>) => OrderedAsClaimed(results[Len(results)])
    /\ pc = "merged" => \A j \in 1..Len(RemoteRows) : OrderedAsClaimed(RemoteRows[j])

\* The characters a JavaScript string of the program's inputs and outputs
\* is made of.
Characters ==
    { "a", "b", "c", "d", "e", "f", "g", "h", "i", "j", "k", "l", "m",
      "n", "o", "p", "q", "r", "s", "t", "u", "v", "w", "x", "y", "z",
      "A", "B", "C", "D", "E", "F", "G", "H", "I", "J", "K", "L", "M",
      "N", "O", "P", "Q", "R", "S", "T", "U", "V", "W", "X", "Y", "Z",
      "0", "1", "2", "3", "4", "5", "6", "7", "8", "9",
      " ", "\n", "_", "-", ".", ",", ";", ":", "/", "(", ")", "[", "]",
      "<", ">", "=", "+", "?", "!", "$", "^", "|", "#", "%", "&", "@" }

\* The seventeen columns of a row, in the order the specification gives.
StatedColumns ==
    << "FieldName", "FieldLabel", "Description", "FieldType", "Formula",
       "FieldLength", "LookupRef", "Required", "HistoryTracking",
       "PicklistValues", "ControllingField", "LastModifiedDate", "Layouts",
       "Flexipages", "RecordTypes", "References", "ProfilesAndPermSets" >>

\* C22: every row, pushed by processFields or by mergeStandardFields, has
\* exactly the seventeen stated columns, written in the stated order, and
\* every column of every row holds a string: none is null, undefined or left
\* out.
HasStatedColumns(row) ==
    /\ DOMAIN row = { StatedColumns[c] : c \in 1..Len(StatedColumns) }
    /\ \A c \in 1..Len(StatedColumns) : row[StatedColumns[c]] \in Seq(Characters)

StartsWith(s, prefix) ==
    Len(s) >= Len(prefix) /\ SubSeq(s, 1, Len(prefix)) = prefix

\* The entries of list that carry label.
EntriesLabelled(list, label) == SelectSeq(list, LAMBDA e : StartsWith(e, label))

\* Every category of References holds what its own corpus gives, nothing
\* for a corpus that is empty or not supplied; and the access column holds
\* nothing of an access corpus that is empty or not supplied.
CategoriesIndependent(row) ==
    /\ \A c \in 1..Len(ReferenceCategories) :
          EntriesLabelled(Split(row.References, <<";", "\n">>), ReferenceCategories[c].label)
              = Labelled(HitNames(OptionalCorpus(ReferenceCategories[c].corpus), row.FieldName),
                         ReferenceCategories[c].label)
    /\ OptionalCorpus("profiles") = <<>> =>
          /\ EntriesLabelled(Split(row.ProfilesAndPermSets, <<";", "\n">>), Label_Profile) = <<>>
          /\ EntriesLabelled(Split(row.References, <<";", "\n">>), Label_Profile) = <<>>
    /\ OptionalCorpus("permsets") = <<>> =>
          /\ EntriesLabelled(Split(row.ProfilesAndPermSets, <<";", "\n">>), Label_PermSet) = <<>>
          /\ EntriesLabelled(Split(row.References, <<";", "\n">>), Label_PermSet) = <<>>

\* C25: a corpus that is empty, or an optional corpus (lwc, aura, profiles,
\* permsets) that is not supplied, is never an error: processFields throws
\* only for a missing folder, an empty glob or a malformed document.  Such a
\* corpus contributes no entry to any row, local or remote, and the entries
\* of the other categories are what their own corpora give.
C25_EmptyCorpora ==
    /\ pc = "threw" =>
          \/ ~dirExists
          \/ fieldFiles = <<>>
          \/ \E i \in 1..Len(fieldFiles) : ~fieldFiles[i].wellFormed
    /\ (pc = "loop" /\ results # <<>>) => CategoriesIndependent(results[Len(results)])
    /\ pc = "merged" => \A j \in 1..Len(RemoteRows) : CategoriesIndependent(RemoteRows[j])

\* A merge without the optional corpora that appended a remote row with
\* references, after a local row with references.
C25_Witness ==
    /\ pc = "merged"
    /\ "lwc" \notin DOMAIN maps /\ "profiles" \notin DOMAIN maps
    /\ results # <<>> /\ results[1].References # <<>>
    /\ RemoteRows # <<>> /\ RemoteRows[1].References # <<>>

\* The same with the optional corpora supplied and empty.
C25_WitnessEmpty ==
    /\ pc = "merged"
    /\ "lwc" \in DOMAIN maps /\ maps.lwc = <<>> /\ maps.profiles = <<>>
    /\ results # <<>> /\ results[1].References # <<>>
    /\ RemoteRows # <<>> /\ RemoteRows[1].References # <<>>

\* The documents read so far for which processFields pushed a row.
RowDocuments ==
    SelectSeq(SubSeq(fieldFiles, 1, idx - 1),
              LAMBDA doc : doc.wellFormed /\ "CustomField" \in DOMAIN doc.xml)

\* C27: the row of a document depends only on the document, the corpora and
\* the last-modified map: two equal documents of one batch get equal rows,
\* whatever was processed before them, and the row just pushed is the one
\* the document gets when it is the only one.
C27_Independent ==
    pc \in {"loop", "returned"} =>
        /\ Len(results) = Len(RowDocuments)
        /\ \A i, j \in 1..Len(results) :
               RowDocuments[i] = RowDocuments[j] => results[i] = results[j]
        /\ (pc = "loop" /\ results # <<>>) =>
               results[Len(results)] = processFieldsRow(RowDocuments[Len(results)].xml, maps)

\* The same document twice in a batch, with references, both rows pushed.
C27_Witness ==
    /\ pc = "returned"
    /\ Len(results) = 2
    /\ fieldFiles[1] = fieldFiles[2]
    /\ results[1].References # <<>>
    /\ results[1].ProfilesAndPermSets # <<>>

(***************************************************************************)
(* Claims about the order of the steps of run.                             *)
(***************************************************************************)
\* All thirteen corpora are loaded, each as the repository has it.
AllLoaded ==
    /\ loaded = Len(CorpusOrder)
    /\ \A k \in 1..Len(CorpusOrder) :
           /\ CorpusOrder[k] \in DOMAIN maps
           /\ maps[CorpusOrder[k]] = Repository[CorpusOrder[k]]

\* processFields was entered: it checked the folder, listed or read a
\* document, or pushed a row.
AnalysisBegun ==
    pc # "idle" \/ dirChecks > 0 \/ globCalls > 0 \/ filesRead > 0 \/ fieldsMatched > 0

\* C26: all thirteen corpus loads have completed before processFields is
\* entered, so before the first field document is parsed and before the
\* first matcher call; and once they have completed no step changes a
\* corpus or the last-modified map.
C26_LoadBeforeAnalysis ==
    /\ [](AnalysisBegun => AllLoaded)
    /\ [][loaded = Len(CorpusOrder) => maps' = maps]_vars

\* A run that loaded everything, processed a field, merged the remote
\* inventory and exited.
C26_Witness ==
    /\ rpc = "exited"
    /\ exitCode = 0
    /\ AllLoaded
    /\ fieldsMatched > 0
    /\ fetchOutcome = "ok"
    /\ Len(merged) > Len(results)

\* The keys buildLastModifiedMap registers for the records of a cached CSV.
CachedKeys ==
    UNION { { toLowerCase(trim(tempCsv.records[i].DeveloperName)),
              toLowerCase(trim(tempCsv.records[i].DeveloperName) \o S___c) } :
            i \in { k \in 1..Len(tempCsv.records) :
                      trim(tempCsv.records[k].DeveloperName) # <<>> } }

\* run is past the two steps that deal with the timestamps.
TimestampsSettled == rpc \notin {"query", "lastModified"}

\* Under --dryRun the query was not run, and past the timestamp steps run
\* has a map, that of the cached file or the empty one, and has not been
\* rejected for the timestamps.
DryRunContinues ==
    args.dryRun =>
        /\ queryOutcome \in {"none", "skipped"}
        /\ TimestampsSettled =>
              /\ "lastModified" \in DOMAIN maps
              /\ DOMAIN maps.lastModified = (IF tempCsv.exists THEN CachedKeys ELSE {})
              /\ \A k \in DOMAIN maps.lastModified : maps.lastModified[k] = S_2025
              /\ runError \notin {S_CliFailed, "csv parse error"}

\* C28, as stated: with --dryRun the LastModified query is never executed
\* and the cached CSV is never written; the last-modified map is built from
\* the cached CSV when one exists and is empty otherwise, and the run
\* continues in both cases.
C28_DryRun ==
    /\ []DryRunContinues
    /\ [][args.dryRun => tempCsv' = tempCsv]_vars

(***************************************************************************)
(* Claims about the timestamps.                                            *)
(***************************************************************************)
\* The developer name and the timestamp of the i-th record, as
\* buildLastModifiedMap reads them.
DeveloperNameOf(i) == trim(tempCsv.records[i].DeveloperName)
TimestampOf(i) == trim(tempCsv.records[i].LastModifiedDate)

\* The records whose developer name is n, ignoring case.
RecordsNamed(n) ==
    { i \in 1..Len(tempCsv.records) :
        DeveloperNameOf(i) # <<>> /\ SameName(DeveloperNameOf(i), n) }

\* The records whose developer name, as it is or with "__c" appended, is n,
\* ignoring case.
RecordsFor(n) ==
    { i \in 1..Len(tempCsv.records) :
        /\ DeveloperNameOf(i) # <<>>
        /\ \/ SameName(DeveloperNameOf(i), n)
           \/ SameName(DeveloperNameOf(i) \o S___c, n) }

Latest(S) == CHOOSE i \in S : \A j \in S : j <= i

=============================================================================
